---- MODULE Spec2Model ----
(***************************************************************************)
(* The deck-generation pipeline of markdown-slide-generator:               *)
(*   Phase B  ai_planner.generate_deck_json   (planning call, validation,  *)
(*            fallback deck)                                               *)
(*   Phase C  image_generator.generate_slide_images (retry ladder,         *)
(*            procedural fallback renderer)                                *)
(*                                                                         *)
(* Python strings that the code inspects (slide titles, image prompts) are *)
(* sequences of one-character strings; a character outside ASCII is        *)
(* written "uXXXX" (its code point).  Texts the code only carries          *)
(* (message, body, the text of a bullet) are one-token strings.            *)
(***************************************************************************)
EXTENDS Integers, Sequences, FiniteSets, TLC

\* ------------------------------------------------------------------ bounds

\* Largest number of slide entries in a raw planning output.
MaxRawSlides == 2

\* Largest number of files slide_1.png .. slide_K.png an earlier run left in
\* the output directory.
MaxPrior == 2

\* --------------------------------------------------------- Python strings

UpperChars ==
    <<"A","B","C","D","E","F","G","H","I","J","K","L","M",
      "N","O","P","Q","R","S","T","U","V","W","X","Y","Z">>

LowerChars ==
    <<"a","b","c","d","e","f","g","h","i","j","k","l","m",
      "n","o","p","q","r","s","t","u","v","w","x","y","z">>

ToLower ==
    [c \in {UpperChars[k] : k \in 1..26} |->
        LowerChars[CHOOSE k \in 1..26 : UpperChars[k] = c]]

ToUpper ==
    [c \in {LowerChars[k] : k \in 1..26} |->
        UpperChars[CHOOSE k \in 1..26 : LowerChars[k] = c]]

LowerChar(c) == IF c \in DOMAIN ToLower THEN ToLower[c] ELSE c

UpperChar(c) == IF c \in DOMAIN ToUpper THEN ToUpper[c] ELSE c

\* str.lower()
Lower(s) == [k \in 1..Len(s) |-> LowerChar(s[k])]

\* str.capitalize(): first character upper-cased, the rest lower-cased
Capitalize(s) ==
    [k \in 1..Len(s) |-> IF k = 1 THEN UpperChar(s[k]) ELSE LowerChar(s[k])]

\* s[k:].startswith(sub), k 1-based
MatchAt(s, sub, k) ==
    /\ k + Len(sub) - 1 <= Len(s)
    /\ \A j \in 1..Len(sub) : s[k + j - 1] = sub[j]

\* sub in s
Contains(sub, s) == \E k \in 1..(Len(s) + 1) : MatchAt(s, sub, k)

\* ------------------------------------------------------- JSON-like values

\* One Python value as the code can meet it in a parsed planning output.
\* t: its type; s: the characters of a str (or the three entries of a theme
\* dict); l: the items of a list of str.  "absent" is a key a dict lacks.
Absent == [t |-> "absent", s |-> <<>>, l |-> <<>>]

Null == [t |-> "null", s |-> <<>>, l |-> <<>>]

Num == [t |-> "num", s |-> <<>>, l |-> <<>>]

Str(s) == [t |-> "str", s |-> s, l |-> <<>>]

List(l) == [t |-> "list", s |-> <<>>, l |-> l]

Theme(p, q, f) == [t |-> "dict", s |-> <<p, q, f>>, l |-> <<>>]

\* dict.get(key, default) / the value setdefault leaves
GetOr(v, default) == IF v.t = "absent" THEN default ELSE v

\* ------------------------------------------------- ai_planner: constants

\* The keywords the planner and the renderer look for in a title:
\* kouka (u52B9 u679C), "effect", kitai (u671F u5F85), kadai (u8AB2 u984C),
\* mondai (u554F u984C).
KwKouka == <<"u52B9","u679C">>

KwEffect == <<"e","f","f","e","c","t">>

KwKitai == <<"u671F","u5F85">>

KwKadai == <<"u8AB2","u984C">>

KwMondai == <<"u554F","u984C">>

LayoutTitle == Str(<<"TITLE">>)

LayoutLeftRight == Str(<<"TITLE_LEFT_IMAGE_RIGHT">>)

LayoutImageFull == Str(<<"IMAGE_FULL_TEXT_BOTTOM">>)

_VALID_LAYOUTS == {LayoutTitle, LayoutLeftRight, LayoutImageFull}

_REQUIRED_SLIDE_KEYS ==
    {"title", "message", "body", "bullets", "image_prompt", "layout"}

DefaultTheme == Theme("#2B579A", "#4472C4", "Arial")

DefaultImagePrompt ==
    Str(<<"A"," ","c","l","e","a","n"," ","f","l","a","t"," ","i","l","l","u",
      "s","t","r","a","t","i","o","n"," ","o","f"," ","a"," ","m","o","d",
      "e","r","n"," ","b","u","s","i","n","e","s","s"," ","o","f","f","i",
      "c","e",","," ","m","i","n","i","m","a","l"," ","s","t","y","l","e",
      ","," ","w","h","i","t","e"," ","b","a","c","k","g","r","o","u","n",
      "d",","," ","n","o"," ","t","e","x","t",","," ","n","o"," ","w","a",
      "t","e","r","m","a","r","k">>)

\* A slide entry that is a dict: one value (or Absent) per key.
Slide(title, message, body, bullets, image_prompt, layout) ==
    [kind |-> "dict", title |-> title, message |-> message, body |-> body,
     bullets |-> bullets, image_prompt |-> image_prompt, layout |-> layout]

\* A slide entry that is not a dict (a JSON string or null in the list).
NonDictEntry(kind) ==
    [kind |-> kind, title |-> Absent, message |-> Absent, body |-> Absent,
     bullets |-> Absent, image_prompt |-> Absent, layout |-> Absent]

\* Faulty variant: the synthesized slide's title holds no outcome keyword.
_make_effect_slide_Kitai ==
    Slide(Str(<<"u671F","u5F85","u6210","u679C">>), Str(<<"[effect.message]">>),
          Str(<<"[effect.body]">>), List(<<>>), DefaultImagePrompt,
          LayoutLeftRight)

_make_effect_slide ==
    Slide(Str(<<"u671F","u5F85","u52B9","u679C">>),
          Str(<<"[effect.message]">>),
          Str(<<"[effect.body]">>),
          List(<<<<"[effect.bullet1]">>, <<"[effect.bullet2]">>,
                 <<"[effect.bullet3]">>, <<"[effect.bullet4]">>>>),
          Str(<<"A"," ","c","l","e","a","n"," ","f","l","a","t"," ","i","l","l","u",
      "s","t","r","a","t","i","o","n"," ","s","h","o","w","i","n","g"," ",
      "a"," ","r","i","s","i","n","g"," ","b","a","r"," ","c","h","a","r",
      "t"," ","a","n","d"," ","e","f","f","i","c","i","e","n","c","y"," ",
      "i","c","o","n","s"," ","s","u","c","h"," ","a","s"," ","a"," ","c",
      "l","o","c","k",","," ","c","h","e","c","k","m","a","r","k",","," ",
      "a","n","d"," ","g","e","a","r","s",","," ","r","e","p","r","e","s",
      "e","n","t","i","n","g"," ","b","u","s","i","n","e","s","s"," ","p",
      "r","o","d","u","c","t","i","v","i","t","y"," ","i","m","p","r","o",
      "v","e","m","e","n","t",","," ","m","i","n","i","m","a","l"," ","s",
      "t","y","l","e",","," ","w","h","i","t","e"," ","b","a","c","k","g",
      "r","o","u","n","d",","," ","n","o"," ","t","e","x","t",","," ","n",
      "o"," ","w","a","t","e","r","m","a","r","k",","," ","p","r","o","f",
      "e","s","s","i","o","n","a","l"," ","b","u","s","i","n","e","s","s",
      " ","i","l","l","u","s","t","r","a","t","i","o","n">>),
          LayoutLeftRight)

\* A deck_json value: kind is the type of the top-level value; slides.t is
\* the type of the "slides" value and slides.e its entries when a list.
Deck(deck_title, theme, slides) ==
    [kind |-> "dict", deck_title |-> deck_title, theme |-> theme,
     slides |-> slides]

SlideList(entries) == [t |-> "list", e |-> entries]

NoSlides(t) == [t |-> t, e |-> <<>>]

NonDictDeck(kind) ==
    [kind |-> kind, deck_title |-> Absent, theme |-> Absent,
     slides |-> NoSlides("absent")]

NoDeck == NonDictDeck("none")

\* Faulty variant: the fallback deck is the outcome slide alone.
_create_fallback_deck_OutcomeOnly ==
    Deck(Str(<<"u63D0","u6848","u8CC7","u6599">>), DefaultTheme, SlideList(<<_make_effect_slide>>))

_create_fallback_deck ==
    Deck(Str(<<"u63D0","u6848","u8CC7","u6599">>),
         DefaultTheme,
         SlideList(<<
           Slide(Str(<<"u63D0","u6848","u8CC7","u6599">>),
                 Str(<<"[cover.message]">>),
                 Str(<<>>),
                 List(<<>>),
                 Str(<<"A"," ","c","l","e","a","n"," ","f","l","a","t"," ","i","l","l","u",
      "s","t","r","a","t","i","o","n"," ","o","f"," ","a"," ","p","r","o",
      "f","e","s","s","i","o","n","a","l"," ","b","u","s","i","n","e","s",
      "s"," ","p","r","e","s","e","n","t","a","t","i","o","n"," ","s","e",
      "t","t","i","n","g",","," ","m","i","n","i","m","a","l",","," ","w",
      "h","i","t","e"," ","b","a","c","k","g","r","o","u","n","d",","," ",
      "n","o"," ","t","e","x","t">>),
                 LayoutTitle),
           Slide(Str(<<"u73FE","u72B6","u306E","u8AB2","u984C">>),
                 Str(<<"[problem.message]">>),
                 Str(<<"[problem.body]">>),
                 List(<<<<"[problem.bullet1]">>, <<"[problem.bullet2]">>,
                        <<"[problem.bullet3]">>>>),
                 Str(<<"A"," ","f","l","a","t"," ","i","l","l","u","s","t","r","a","t","i",
      "o","n"," ","o","f"," ","a","n"," ","o","v","e","r","w","h","e","l",
      "m","e","d"," ","o","f","f","i","c","e"," ","w","o","r","k","e","r",
      " ","s","u","r","r","o","u","n","d","e","d"," ","b","y"," ","s","t",
      "a","c","k","s"," ","o","f"," ","p","a","p","e","r"," ","d","o","c",
      "u","m","e","n","t","s"," ","a","n","d"," ","s","p","r","e","a","d",
      "s","h","e","e","t","s",","," ","m","i","n","i","m","a","l"," ","s",
      "t","y","l","e",","," ","w","h","i","t","e"," ","b","a","c","k","g",
      "r","o","u","n","d",","," ","n","o"," ","t","e","x","t",","," ","n",
      "o"," ","w","a","t","e","r","m","a","r","k">>),
                 LayoutLeftRight),
           Slide(Str(<<"u89E3","u6C7A","u7B56">>),
                 Str(<<"[solution.message]">>),
                 Str(<<"[solution.body]">>),
                 List(<<<<"[solution.bullet1]">>, <<"[solution.bullet2]">>,
                        <<"[solution.bullet3]">>>>),
                 Str(<<"A"," ","f","l","a","t"," ","i","l","l","u","s","t","r","a","t","i",
      "o","n"," ","o","f"," ","a"," ","d","i","g","i","t","a","l"," ","t",
      "r","a","n","s","f","o","r","m","a","t","i","o","n"," ","c","o","n",
      "c","e","p","t"," ","w","i","t","h"," ","c","l","o","u","d"," ","c",
      "o","m","p","u","t","i","n","g"," ","i","c","o","n","s",","," ","A",
      "I"," ","b","r","a","i","n"," ","s","y","m","b","o","l",","," ","a",
      "n","d"," ","a","u","t","o","m","a","t","e","d"," ","w","o","r","k",
      "f","l","o","w"," ","a","r","r","o","w","s",","," ","m","i","n","i",
      "m","a","l"," ","s","t","y","l","e",","," ","w","h","i","t","e"," ",
      "b","a","c","k","g","r","o","u","n","d",","," ","n","o"," ","t","e",
      "x","t",","," ","n","o"," ","w","a","t","e","r","m","a","r","k">>),
                 LayoutLeftRight),
           _make_effect_slide>>))

\* ------------------------------------------------ ai_planner: validation

\* The result of a call: the value returned, or the exception raised.
Returned(deck) == [raised |-> FALSE, exc |-> "", deck |-> deck]

Raised(exc) == [raised |-> TRUE, exc |-> exc, deck |-> NoDeck]

\* The loop body of _validate_and_fix on one slide entry: the entry after
\* the setdefault calls and the layout check.  An entry that is no dict has
\* no setdefault; a list as layout is unhashable in the set membership test.
FixSlideRaises(s) == s.kind # "dict" \/ s.layout.t = "list"

FixSlideExc(s) == IF s.kind # "dict" THEN "AttributeError" ELSE "TypeError"

\* Faulty variant: the layout is kept whether or not it is a valid one.
FixSlide_KeepsLayout(s) ==
    [s EXCEPT
       !.title = GetOr(s.title, Str(<<>>)),
       !.message = GetOr(s.message, Str(<<>>)),
       !.body = GetOr(s.body, Str(<<>>)),
       !.bullets = GetOr(s.bullets, List(<<>>)),
       !.image_prompt = GetOr(s.image_prompt, DefaultImagePrompt),
       !.layout = GetOr(s.layout, LayoutLeftRight)]

FixSlide(s) ==
    [s EXCEPT
       !.title = GetOr(s.title, Str(<<>>)),
       !.message = GetOr(s.message, Str(<<>>)),
       !.body = GetOr(s.body, Str(<<>>)),
       !.bullets = GetOr(s.bullets, List(<<>>)),
       !.image_prompt = GetOr(s.image_prompt, DefaultImagePrompt),
       !.layout = IF s.layout \in _VALID_LAYOUTS THEN s.layout
                  ELSE LayoutLeftRight]

\* "kouka" in title or "effect" in title.lower(), for the title value the
\* slide holds: "yes", "no", or the exception the expression raises.  On a
\* list the first test is list membership and .lower() does not exist.
TitleIsEffect(title) ==
    CASE title.t = "str" ->
           IF Contains(KwKouka, title.s) \/ Contains(KwEffect, Lower(title.s))
           THEN "yes" ELSE "no"
      [] title.t = "list" ->
           IF \E k \in 1..Len(title.l) : title.l[k] = KwKouka
           THEN "yes" ELSE "AttributeError"
      [] OTHER -> "TypeError"

\* any(... for s in slides): stops at the first slide that tests true, and
\* raises what the first failing test before it raises.
RECURSIVE HasEffectSlide(_)
HasEffectSlide(slides) ==
    IF slides = <<>> THEN "no"
    ELSE LET r == TitleIsEffect(GetOr(Head(slides).title, Str(<<>>)))
         IN IF r = "no" THEN HasEffectSlide(Tail(slides)) ELSE r

\* if "slides" not in deck or not deck["slides"], on a dict: the key is
\* missing, or its value is None or an empty list.
SlidesUnusable(deck) ==
    \/ deck.slides.t \in {"absent", "null"}
    \/ deck.slides.t = "list" /\ deck.slides.e = <<>>

\* if "deck_title" not in deck / if "theme" not in deck
FillTopLevel(deck) ==
    [deck EXCEPT !.deck_title = GetOr(deck.deck_title, Str(<<"P","r","e","s","e","n","t","a","t","i","o","n">>)),
                 !.theme = GetOr(deck.theme, DefaultTheme)]

\* Faulty variant: the synthesized slide is appended to every deck.
WithEffectSlide_Always(fixed, has) == Append(fixed, _make_effect_slide)

\* Faulty variant: the synthesized slide is put first, not appended.
WithEffectSlide_Prepends(fixed, has) ==
    IF has = "yes" THEN fixed ELSE <<_make_effect_slide>> \o fixed

\* if not has_effect_slide: deck["slides"].append(_make_effect_slide())
WithEffectSlide(fixed, has) ==
    IF has = "yes" THEN fixed ELSE Append(fixed, _make_effect_slide)

\* The slide loop and the outcome-slide check of _validate_and_fix, on a
\* dict whose "slides" is usable: a number cannot be iterated, the items of
\* a string are strings, and the loop raises at the first entry it cannot
\* repair.
RepairSlides(deck) ==
    IF deck.slides.t = "num" THEN Raised("TypeError")
    ELSE IF deck.slides.t = "str" THEN Raised("AttributeError")
    ELSE IF \E k \in 1..Len(deck.slides.e) : FixSlideRaises(deck.slides.e[k])
    THEN Raised(FixSlideExc(deck.slides.e[
             CHOOSE k \in 1..Len(deck.slides.e) :
                /\ FixSlideRaises(deck.slides.e[k])
                /\ \A j \in 1..(k - 1) : ~FixSlideRaises(deck.slides.e[j])]))
    ELSE LET fixed == [k \in 1..Len(deck.slides.e) |->
                          FixSlide(deck.slides.e[k])]
             has == HasEffectSlide(fixed)
         IN IF has \notin {"yes", "no"} THEN Raised(has)
            ELSE Returned([FillTopLevel(deck) EXCEPT
                             !.slides = SlideList(WithEffectSlide(fixed, has))])

\* Faulty variant: a deck without slides is returned with its gaps filled.
_validate_and_fix_ReturnsInput(deck) ==
    IF deck.kind # "dict" THEN Raised("TypeError")
    ELSE IF SlidesUnusable(deck) THEN Returned(FillTopLevel(deck))
    ELSE RepairSlides(deck)

\* Faulty variant: a deck without slides is repaired like any other.
_validate_and_fix_RepairsEmpty(deck) ==
    IF deck.kind # "dict" THEN Raised("TypeError")
    ELSE IF deck.slides.t \in {"absent", "null"}
    THEN Returned(_create_fallback_deck)
    ELSE RepairSlides(deck)

\* _validate_and_fix(deck, source_text): a value that is no dict cannot take
\* the deck_title default.
_validate_and_fix(deck) ==
    IF deck.kind # "dict" THEN Raised("TypeError")
    ELSE IF SlidesUnusable(deck) THEN Returned(_create_fallback_deck)
    ELSE RepairSlides(deck)

\* -------------------------------------- image_generator: retry prompts

\* str.replace(old, ""): every non-overlapping occurrence of old, scanning
\* from the left, removed (old is never empty here).
RECURSIVE RemoveAll(_, _)
RemoveAll(s, old) ==
    LET hits == {k \in 1..Len(s) : MatchAt(s, old, k)}
    IN IF hits = {} THEN s
       ELSE LET first == CHOOSE k \in hits : \A j \in hits : k <= j
            IN SubSeq(s, 1, first - 1)
               \o RemoveAll(SubSeq(s, first + Len(old), Len(s)), old)

IsSpace(c) == c \in {" ", "\t", "\n", "\r"}

\* re.sub(r"\s{2,}", " ", s): a run of two or more whitespace characters
\* becomes one space; a lone whitespace character stays what it is.
RECURSIVE CollapseSpaces(_)
CollapseSpaces(s) ==
    LET runs == {k \in 1..(Len(s) - 1) : IsSpace(s[k]) /\ IsSpace(s[k + 1])}
    IN IF runs = {} THEN s
       ELSE LET first == CHOOSE k \in runs : \A j \in runs : k <= j
                last == CHOOSE e \in first..Len(s) :
                           /\ \A j \in first..e : IsSpace(s[j])
                           /\ (e = Len(s) \/ ~IsSpace(s[e + 1]))
            IN SubSeq(s, 1, first - 1) \o <<" ">>
               \o CollapseSpaces(SubSeq(s, last + 1, Len(s)))

\* str.strip()
Strip(s) ==
    IF \A k \in 1..Len(s) : IsSpace(s[k]) THEN <<>>
    ELSE LET a == CHOOSE k \in 1..Len(s) :
                     ~IsSpace(s[k]) /\ \A j \in 1..(k - 1) : IsSpace(s[j])
             b == CHOOSE k \in 1..Len(s) :
                     ~IsSpace(s[k]) /\ \A j \in (k + 1)..Len(s) : IsSpace(s[j])
         IN SubSeq(s, a, b)

\* The adjectives of _build_retry_prompts, in the order of its loop.
HeavyAdjectives ==
    << <<"d","e","t","a","i","l","e","d">>,
       <<"h","i","g","h","l","y"," ","d","e","t","a","i","l","e","d">>,
       <<"i","n","t","r","i","c","a","t","e">>,
       <<"e","l","a","b","o","r","a","t","e">>,
       <<"p","h","o","t","o","r","e","a","l","i","s","t","i","c">>,
       <<"u","l","t","r","a","-","r","e","a","l","i","s","t","i","c">>,
       <<"h","y","p","e","r","-","r","e","a","l","i","s","t","i","c">>,
       <<"c","o","m","p","l","e","x">>,
       <<"s","o","p","h","i","s","t","i","c","a","t","e","d">> >>

\* The loop over the adjectives from the k-th on:
\* shortened.replace(adj, "").replace(adj.capitalize(), "")
RECURSIVE StripAdjectives(_, _)
StripAdjectives(s, k) ==
    IF k > Len(HeavyAdjectives) THEN s
    ELSE StripAdjectives(
           RemoveAll(RemoveAll(s, HeavyAdjectives[k]),
                     Capitalize(HeavyAdjectives[k])),
           k + 1)

KwMinimal == <<"m","i","n","i","m","a","l">>

KwNoText == <<"n","o"," ","t","e","x","t">>

SuffixMinimal == <<","," ","m","i","n","i","m","a","l"," ","s","t","y","l","e">>

SuffixNoText == <<","," ","n","o"," ","t","e","x","t">>

SafePrompt ==
    <<"A"," ","c","l","e","a","n"," ","f","l","a","t"," ","i","l","l","u",
      "s","t","r","a","t","i","o","n"," ","f","o","r"," ","a"," ","b","u",
      "s","i","n","e","s","s"," ","p","r","e","s","e","n","t","a","t","i",
      "o","n",","," ","s","i","m","p","l","e"," ","g","e","o","m","e","t",
      "r","i","c"," ","s","h","a","p","e","s",","," ","p","r","o","f","e",
      "s","s","i","o","n","a","l"," ","c","o","l","o","r"," ","p","a","l",
      "e","t","t","e",","," ","m","i","n","i","m","a","l"," ","d","e","s",
      "i","g","n",","," ","w","h","i","t","e"," ","b","a","c","k","g","r",
      "o","u","n","d",","," ","n","o"," ","t","e","x","t",","," ","n","o",
      " ","w","a","t","e","r","m","a","r","k",","," ","n","o"," ","p","e",
      "o","p","l","e",","," ","c","o","r","p","o","r","a","t","e"," ","s",
      "t","y","l","e">>

\* Attempt 2 of _build_retry_prompts
ShortenedPrompt(original) ==
    LET stripped == Strip(CollapseSpaces(StripAdjectives(original, 1)))
        withMinimal == IF Contains(KwMinimal, Lower(stripped)) THEN stripped
                       ELSE stripped \o SuffixMinimal
    IN IF Contains(KwNoText, Lower(withMinimal)) THEN withMinimal
       ELSE withMinimal \o SuffixNoText

\* Faulty variant: the shortened prompt is tried twice.
_build_retry_prompts_Four(original) ==
    <<original, ShortenedPrompt(original), ShortenedPrompt(original),
      SafePrompt>>

\* _build_retry_prompts(original_prompt) on a str
_build_retry_prompts(original) ==
    <<original, ShortenedPrompt(original), SafePrompt>>

\* ------------------------------ image_generator: procedural fallback

\* len(bullets) on the value slide.get("bullets", []) returns: a number, or
\* -1 when len() raises TypeError (None, a number).
BulletCount(bullets) ==
    CASE bullets.t = "list" -> Len(bullets.l)
      [] bullets.t = "str" -> Len(bullets.s)
      [] OTHER -> -1

\* kw in title, on the value slide.get("title", ""): substring test on a
\* str, membership on a list; raises TypeError on None or a number.
TitleTestRaises(title) == title.t \notin {"str", "list"}

KwInTitle(kw, title) ==
    IF title.t = "str" THEN Contains(kw, title.s)
    ELSE \E k \in 1..Len(title.l) : title.l[k] = kw

\* Faulty variant: the title keywords are tested before the bullet count.
ShapeBranch_TitleFirst(slide) ==
    LET bullets == GetOr(slide.bullets, List(<<>>))
        title == GetOr(slide.title, Str(<<>>))
    IN IF BulletCount(bullets) = -1 \/ TitleTestRaises(title) THEN "TypeError"
       ELSE IF KwInTitle(KwKouka, title) \/ KwInTitle(KwKitai, title)
       THEN "chart"
       ELSE IF KwInTitle(KwKadai, title) \/ KwInTitle(KwMondai, title)
       THEN "problem"
       ELSE IF BulletCount(bullets) >= 3 THEN "card"
       ELSE "flow"

\* The diagram _generate_shape_fallback draws for a slide, or "TypeError".
ShapeBranch(slide) ==
    LET bullets == GetOr(slide.bullets, List(<<>>))
        title == GetOr(slide.title, Str(<<>>))
    IN IF BulletCount(bullets) = -1 THEN "TypeError"
       ELSE IF BulletCount(bullets) >= 3 THEN "card"
       ELSE IF TitleTestRaises(title) THEN "TypeError"
       ELSE IF KwInTitle(KwKouka, title) \/ KwInTitle(KwKitai, title)
       THEN "chart"
       ELSE IF KwInTitle(KwKadai, title) \/ KwInTitle(KwMondai, title)
       THEN "problem"
       ELSE "flow"

Min(a, b) == IF a <= b THEN a ELSE b

Max(a, b) == IF a >= b THEN a ELSE b

Repeat(x, n) == [k \in 1..n |-> x]

\* Faulty variant: one card per bullet, however many.
_draw_card_layout_Uncapped(bullets) == Repeat("card", BulletCount(bullets))

\* _draw_card_layout: one card per bullet, n = min(len(bullets), 4).
_draw_card_layout(bullets) == Repeat("card", Min(BulletCount(bullets), 4))

\* Faulty variant: the bars fall from left to right.
bar_h_Falling(h, n, i) == {((h - 200) * (10 * n - 7 * i)) \div (10 * n)}

\* bar_h = int((h - 200) * (0.3 + 0.7 * (i + 1) / n)) in double arithmetic.
\* The exact value is (h - 200) * (3n + 7(i + 1)) / (10n). Where that is no
\* integer it is at least 1/(10n) away from one, far more than the rounding
\* error of the three operations, and int() gives its floor. Where it is an
\* integer the computed double is that integer or falls just short of it
\* (0.3 + 0.7 * 3 / 3 is 0.9999999999999998), and int() gives the integer or
\* one less: both are outcomes.
bar_h(h, n, i) ==
    LET num == (h - 200) * (3 * n + 7 * (i + 1))
        den == 10 * n
    IN IF num % den = 0 THEN {(num \div den) - 1, num \div den}
       ELSE {num \div den}

\* The heights of bars 0 .. k-1 of a chart of n bars, left to right.
RECURSIVE BarRuns(_, _, _)
BarRuns(h, n, k) ==
    IF k = 0 THEN {<<>>}
    ELSE {Append(q, b) : q \in BarRuns(h, n, k - 1), b \in bar_h(h, n, k - 1)}

\* Iterations 0 .. k-1 of the loop of _draw_chart_layout: a bar, and the
\* growth arrow if i == n - 1.
RECURSIVE ChartLoop(_, _)
ChartLoop(n, k) ==
    IF k = 0 THEN <<>>
    ELSE ChartLoop(n, k - 1) \o <<"bar">>
         \o (IF k - 1 = n - 1 THEN <<"arrow">> ELSE <<>>)

\* _draw_chart_layout: n = max(len(bullets), 3) bars, the baseline, the
\* label; one drawing per outcome of the bar heights.
_draw_chart_layout(h, bullets) ==
    LET n == Max(BulletCount(bullets), 3)
    IN {[ops |-> ChartLoop(n, n) \o <<"baseline", "label">>, bars |-> q] :
          q \in BarRuns(h, n, n)}

\* _draw_problem_layout: the warning triangle, the exclamation mark, and
\* min(len(bullets), 5) small circles.
_draw_problem_layout(bullets) ==
    <<"triangle", "mark", "dot">>
    \o Repeat("circle", Min(BulletCount(bullets), 5)) \o <<"label">>

\* Iterations 0 .. k-1 of the loop of _draw_flow_layout: a box, and an arrow
\* to the next box if i < n - 1.
RECURSIVE FlowLoop(_, _)
FlowLoop(n, k) ==
    IF k = 0 THEN <<>>
    ELSE FlowLoop(n, k - 1) \o <<"box">>
         \o (IF k - 1 < n - 1 THEN <<"link">> ELSE <<>>)

\* _draw_flow_layout: n = max(len(bullets), 3) boxes.
_draw_flow_layout(bullets) ==
    LET n == Max(BulletCount(bullets), 3)
    IN FlowLoop(n, n) \o <<"label">>

\* The images _generate_shape_fallback(slide, width, height, filepath) can
\* save when it does not raise: the chosen diagram, then the branding strip.
_generate_shape_fallback(slide, width, height) ==
    LET bullets == GetOr(slide.bullets, List(<<>>))
        branch == ShapeBranch(slide)
        plain(ops) == {[ops |-> ops, bars |-> <<>>]}
        drawings ==
            CASE branch = "card" -> plain(_draw_card_layout(bullets))
              [] branch = "chart" -> _draw_chart_layout(height, bullets)
              [] branch = "problem" -> plain(_draw_problem_layout(bullets))
              [] OTHER -> plain(_draw_flow_layout(bullets))
    IN {[width |-> width, height |-> height,
         ops |-> Append(d.ops, "strip"), bars |-> d.bars] : d \in drawings}

\* Faulty variant: every layout but the default one is given the wide size.
ImageSize_WideUnlessDefault(layout) ==
    IF layout # LayoutLeftRight
    THEN [width |-> 1920, height |-> 1080, aspect |-> "16:9"]
    ELSE [width |-> 1024, height |-> 1024, aspect |-> "1:1"]

\* width, height and aspect in generate_slide_images, for the value
\* layout = slide.get("layout", "TITLE_LEFT_IMAGE_RIGHT").
ImageSize(layout) ==
    IF layout = LayoutImageFull
    THEN [width |-> 1920, height |-> 1080, aspect |-> "16:9"]
    ELSE [width |-> 1024, height |-> 1024, aspect |-> "1:1"]

\* ------------------------------------------------------------------ state

VARIABLES
    pc,        \* where the run is: "B_*" in generate_deck_json, "C_*" in
               \* generate_slide_images
    exc,       \* the exception that escaped to the caller, "" if none
    cred,      \* [vertex, apikey]: Vertex credentials / an API key configured
    called,    \* the planning path whose call was made last: "vertex", "apikey"
    vin,       \* the parsed value handed to _validate_and_fix (NoDeck: none)
    vout,      \* what the try block produced: a deck, or an exception
    deck,      \* the deck_json generate_deck_json returned (NoDeck: not yet)
    provider,  \* the provider argument of generate_slide_images
    files,     \* the output directory: file number k (slide_<k>.png) |->
               \* "empty" or "full"; a number outside the domain: no file
    results,   \* results of generate_slide_images: index |-> [path, type]
    drawn,     \* index |-> the diagram the fallback renderer drew
    sizes,     \* index |-> [width, height, aspect] chosen from the layout
    canvas,    \* index |-> the image the fallback renderer drew and saved
    idx,       \* i of the slide loop (0-based)
    prompts,   \* prompts of _generate_with_retries for the current slide
    ladder,    \* one record per attempt made for the current slide
    cleared,   \* the file numbers the app's last shutil.rmtree removed
    pptx,      \* prs.slides of build_pptx: one record per slide added
    md         \* parse_markdown: [lines, pos, presentation_title, slides,
               \* current_slide], pos lines of the input done

planVars == <<cred, called, vin, vout, deck>>

imgVars == <<provider, files, results, drawn, sizes, canvas, idx, prompts,
            ladder>>

appVars == <<cleared>>

pptxVars == <<pptx>>

mdVars == <<md>>

vars == <<pc, exc, cred, called, vin, vout, deck,
          provider, files, results, drawn, sizes, canvas, idx, prompts,
          ladder, cleared, pptx, md>>

\* ------------------------------------------------- planning-model outputs

\* What one planning call does: raises, returns text json.loads rejects, or
\* returns text that parses to a value.
PlanRaises == [kind |-> "raise", value |-> NoDeck]

PlanUnparsable == [kind |-> "unparsable", value |-> NoDeck]

PlanJson(value) == [kind |-> "json", value |-> value]

PlainSlide ==
    Slide(Str(<<"P","l","a","n">>), Str(<<"[raw.message]">>), Str(<<"[raw.body]">>),
          List(<<<<"[raw.bullet1]">>>>), Str(<<"A"," ","D","e","t","a","i","l","e","d"," "," ","c","o","m","p","l",
      "e","x"," ","m","a","p">>),
          LayoutLeftRight)

EffectTitleSlide ==
    Slide(Str(<<"u5C0E","u5165","u52B9","u679C">>), Str(<<"[raw.message]">>), Absent,
          List(<<<<"[raw.bullet1]">>, <<"[raw.bullet2]">>,
                 <<"[raw.bullet3]">>>>),
          Str(<<"h","i","g","h","l","y"," ","d","e","t","a","i","l","e","d"," ","c",
      "h","a","r","t",","," ","n","o"," ","t","e","x","t">>), LayoutImageFull)

\* Slide entries a planning model can return.
SlideEntries ==
    { NonDictEntry("str"),
      NonDictEntry("null"),
      Slide(Absent, Absent, Absent, Absent, Absent, Absent),
      PlainSlide,
      EffectTitleSlide,
      [PlainSlide EXCEPT !.title = Str(<<"S","i","d","e"," ","E","F","F","E","C","T","S">>),
                         !.layout = LayoutTitle, !.bullets = List(<<>>)],
      [PlainSlide EXCEPT !.title = Str(<<"u73FE","u72B6","u306E","u8AB2","u984C">>),
                         !.layout = Str(<<"GRID">>)],
      [PlainSlide EXCEPT !.title = Str(<<"u671F","u5F85">>), !.layout = Absent],
      [PlainSlide EXCEPT !.title = Null],
      [PlainSlide EXCEPT !.title = Num],
      [PlainSlide EXCEPT !.title = List(<<KwKouka>>)],
      [PlainSlide EXCEPT !.title = List(<<KwEffect>>)],
      [PlainSlide EXCEPT !.bullets = Null],
      [PlainSlide EXCEPT !.image_prompt = Null],
      [PlainSlide EXCEPT !.layout = Null],
      [PlainSlide EXCEPT !.layout = List(<<>>)],
      [EffectTitleSlide EXCEPT !.bullets = List(<<>>)] }

RECURSIVE SeqsUpTo(_, _)
SeqsUpTo(S, n) ==
    IF n = 0 THEN {<<>>}
    ELSE LET shorter == SeqsUpTo(S, n - 1)
         IN shorter \cup
            {Append(q, x) : q \in {r \in shorter : Len(r) = n - 1}, x \in S}

RawTitle == Str(<<"Q","3"," ","p","l","a","n">>)

RawTheme == Theme("#000000", "#FFFFFF", "Meiryo")

\* Every parsed value the planner is run on: values that are no dict, and
\* dicts with or without deck_title and theme, whose "slides" is missing,
\* null, a number, a string, or a list of up to MaxRawSlides entries.
RawDecks ==
    {NonDictDeck(k) : k \in {"list", "str", "num", "null"}}
    \cup {Deck(dt, th, sl) :
            dt \in {Absent, RawTitle}, th \in {Absent, RawTheme},
            sl \in {NoSlides(t) : t \in {"absent", "null", "num", "str"}}
                   \cup {SlideList(q) : q \in SeqsUpTo(SlideEntries, MaxRawSlides)}}

AllPlanOutputs ==
    {PlanRaises, PlanUnparsable} \cup {PlanJson(d) : d \in RawDecks}

\* The planning outputs the whole pipeline is run on.
PipelinePlanOutputs ==
    { PlanRaises,
      PlanUnparsable,
      PlanJson(NonDictDeck("list")),
      PlanJson(Deck(Absent, Absent, NoSlides("absent"))),
      PlanJson(Deck(RawTitle, RawTheme, SlideList(<<EffectTitleSlide>>))),
      PlanJson(Deck(RawTitle, RawTheme,
                    SlideList(<<[PlainSlide EXCEPT
                                   !.title = Str(<<"S","i","d","e"," ","E","F","F","E","C","T","S">>),
                                   !.layout = LayoutTitle,
                                   !.bullets = List(<<>>)]>>))),
      PlanJson(Deck(RawTitle, Absent,
                    SlideList(<<[PlainSlide EXCEPT !.bullets = Null]>>))),
      PlanJson(Deck(Absent, RawTheme,
                    SlideList(<<[PlainSlide EXCEPT !.image_prompt = Null]>>))),
      PlanJson(Deck(RawTitle, RawTheme,
                    SlideList(<<[EffectTitleSlide EXCEPT !.bullets = List(<<>>)],
                                [PlainSlide EXCEPT !.title = Null]>>))) }

\* ------------------------------------------- ai_planner.generate_deck_json

NoResult == Returned(NoDeck)

\* presentation_title = "Untitled Presentation"
UntitledPresentation == <<"U","n","t","i","t","l","e","d"," ","P","r","e","s","e","n","t","a",
      "t","i","o","n">>

\* parse_markdown is not running.
NoMarkdown ==
    [lines |-> <<>>, pos |-> 0, presentation_title |-> <<>>, slides |-> <<>>,
     current_slide |-> <<>>]

Init ==
    /\ pc = "B_start"
    /\ exc = ""
    /\ cred \in [vertex : BOOLEAN, apikey : BOOLEAN]
    /\ called = ""
    /\ vin = NoDeck
    /\ vout = NoResult
    /\ deck = NoDeck
    /\ provider = ""
    /\ files = <<>>
    /\ results = <<>>
    /\ drawn = <<>>
    /\ sizes = <<>>
    /\ canvas = <<>>
    /\ idx = 0
    /\ prompts = <<>>
    /\ ladder = <<>>
    /\ cleared = {}
    /\ pptx = <<>>
    /\ md = NoMarkdown

\* The body of a try block: the planning call, json.loads, _validate_and_fix.
TryBlock(r) ==
    CASE r.kind = "raise" -> Raised("Exception")
      [] r.kind = "unparsable" -> Raised("JSONDecodeError")
      [] OTHER -> _validate_and_fix(r.value)

\* The Vertex AI path: entered when project id and credentials are set.
VertexCall(outputs) ==
    /\ pc = "B_start"
    /\ cred.vertex
    /\ \E r \in outputs :
         /\ vin' = r.value
         /\ vout' = TryBlock(r)
    /\ called' = "vertex"
    /\ pc' = "B_tried"
    /\ UNCHANGED <<exc, cred, deck>>
    /\ UNCHANGED imgVars
    /\ UNCHANGED appVars
    /\ UNCHANGED mdVars
    /\ UNCHANGED pptxVars

\* The API-key path: entered when an API key is set and the Vertex path was
\* not taken or fell through from its except clause.
ApiKeyCall(outputs) ==
    /\ pc = IF cred.vertex THEN "B_apikey" ELSE "B_start"
    /\ cred.apikey
    /\ \E r \in outputs :
         /\ vin' = r.value
         /\ vout' = TryBlock(r)
    /\ called' = "apikey"
    /\ pc' = "B_tried"
    /\ UNCHANGED <<exc, cred, deck>>
    /\ UNCHANGED imgVars
    /\ UNCHANGED appVars
    /\ UNCHANGED mdVars
    /\ UNCHANGED pptxVars

\* return deck, at the end of a try block that raised nothing
TryReturn ==
    /\ pc = "B_tried"
    /\ ~vout.raised
    /\ deck' = vout.deck
    /\ pc' = "B_done"
    /\ called' = ""
    /\ vin' = NoDeck
    /\ vout' = NoResult
    /\ UNCHANGED <<exc, cred>>
    /\ UNCHANGED imgVars
    /\ UNCHANGED appVars
    /\ UNCHANGED mdVars
    /\ UNCHANGED pptxVars

\* except Exception: the Vertex path falls through to the API-key path when
\* a key is set; every other failure returns the fallback deck.
TryExcept ==
    /\ pc = "B_tried"
    /\ vout.raised
    /\ IF called = "vertex" /\ cred.apikey
       THEN /\ pc' = "B_apikey"
            /\ deck' = deck
       ELSE /\ pc' = "B_done"
            /\ deck' = _create_fallback_deck
    /\ called' = ""
    /\ vin' = NoDeck
    /\ vout' = NoResult
    /\ UNCHANGED <<exc, cred>>
    /\ UNCHANGED imgVars
    /\ UNCHANGED appVars
    /\ UNCHANGED mdVars
    /\ UNCHANGED pptxVars

\* No authentication configured
NoAuth ==
    /\ pc = "B_start"
    /\ ~cred.vertex
    /\ ~cred.apikey
    /\ deck' = _create_fallback_deck
    /\ pc' = "B_done"
    /\ UNCHANGED <<exc, cred, called, vin, vout>>
    /\ UNCHANGED imgVars
    /\ UNCHANGED appVars
    /\ UNCHANGED mdVars
    /\ UNCHANGED pptxVars

\* ------------------------------------ image_generator.generate_slide_images

\* What one call of the image capability does: "fail" returns no image,
\* "raise" raises before anything is written, "raise_partial" raises while
\* the file is being written, "ok_file" writes a non-empty file, "ok_empty"
\* writes an empty file, "ok_none" writes nothing; the last three return.
CapOutcomes ==
    {"fail", "raise", "raise_partial", "ok_file", "ok_empty", "ok_none"}

\* _generate_vertex_image / _generate_google_image: True when the call
\* returned after save(); every exception is caught and gives False.
Reports(o) == o \in {"ok_file", "ok_empty", "ok_none"}

\* What the call wrote at the slide's path.
Wrote(o) ==
    CASE o \in {"ok_file", "raise_partial"} -> "full"
      [] o = "ok_empty" -> "empty"
      [] OTHER -> "none"

FileAt(dir, k) == IF k \in DOMAIN dir THEN dir[k] ELSE "absent"

WriteFile(dir, k, content) ==
    [j \in DOMAIN dir \cup {k} |-> IF j = k THEN content ELSE dir[j]]

SetAt(f, k, v) == [j \in DOMAIN f \cup {k} |-> IF j = k THEN v ELSE f[j]]

AfterCall(file, o) == IF Wrote(o) = "none" THEN file ELSE Wrote(o)

\* os.path.exists(filepath) and os.path.getsize(filepath) > 0
FileVerified(file) == file = "full"

\* Faulty variant: the Vertex call is never made.
AttemptOn_NoVertex(p, file, useVertex, useApiKey, o1, o2) ==
    LET success == useApiKey /\ Reports(o2)
        f2 == IF useApiKey THEN AfterCall(file, o2) ELSE file
    IN [prompt |-> p,
        calls |-> IF useApiKey THEN 1 ELSE 0,
        success |-> success,
        wrote |-> IF success THEN Wrote(o2) ELSE "none",
        left |-> IF useApiKey THEN Wrote(o2) ELSE "none",
        file |-> f2,
        verified |-> success /\ FileVerified(f2)]

\* One iteration of the loop of _generate_with_retries on prompt p, with the
\* file as it is before it, when the Vertex call (if made) does o1 and the
\* API-key call (if made) does o2.
AttemptOn(p, file, useVertex, useApiKey, o1, o2) ==
    LET s1 == useVertex /\ Reports(o1)
        f1 == IF useVertex THEN AfterCall(file, o1) ELSE file
        second == ~s1 /\ useApiKey
        success == IF second THEN Reports(o2) ELSE s1
        f2 == IF second THEN AfterCall(f1, o2) ELSE f1
        w1 == IF useVertex THEN Wrote(o1) ELSE "none"
    IN [prompt |-> p,
        calls |-> (IF useVertex THEN 1 ELSE 0) + (IF second THEN 1 ELSE 0),
        success |-> success,
        wrote |-> IF ~success THEN "none"
                  ELSE IF second THEN Wrote(o2) ELSE w1,
        left |-> IF second /\ Wrote(o2) # "none" THEN Wrote(o2) ELSE w1,
        file |-> f2,
        verified |-> success /\ FileVerified(f2)]

\* Faulty variant: the loop goes on after a verified attempt.
LadderNext_NoEarlyReturn(a, n, total) ==
    IF n < total THEN "C_ladder"
    ELSE IF a.verified THEN "C_ladder_true"
    ELSE "C_ladder_false"

\* Where the loop of _generate_with_retries goes after attempt number n of
\* total, whose record is a: return True on a verified success, the next
\* prompt otherwise, return False after the last one.
LadderNext(a, n, total) ==
    IF a.verified THEN "C_ladder_true"
    ELSE IF n < total THEN "C_ladder"
    ELSE "C_ladder_false"

\* Faulty variant: the file number is the 0-based index.
SlidePath_ZeroBased(i) == i

\* filepath = os.path.join(output_dir, f"slide_{i + 1}.png"): the number in
\* the name of slide i's file.
SlidePath(i) == i + 1

CurrentSlide == deck.slides.e[idx + 1]

NumSlides == Len(deck.slides.e)

\* Entry: makedirs(exist_ok=True) keeps whatever the directory holds, here
\* the files slide_1.png .. slide_K.png of an earlier run.
GenStart ==
    /\ pc = "B_done"
    /\ \E prov \in {"google", "other"} : provider' = prov
    /\ \E prior \in 0..MaxPrior : files' = [k \in 1..prior |-> "full"]
    /\ results' = <<>>
    /\ drawn' = <<>>
    /\ sizes' = <<>>
    /\ canvas' = <<>>
    /\ idx' = 0
    /\ pc' = "C_loop"
    /\ UNCHANGED <<exc, prompts, ladder>>
    /\ UNCHANGED planVars
    /\ UNCHANGED appVars
    /\ UNCHANGED mdVars
    /\ UNCHANGED pptxVars

\* Top of the loop body up to prompts = _build_retry_prompts(prompt): the
\* image size is chosen from the layout; a prompt that is no str has no
\* replace().
SlideBegin ==
    /\ pc = "C_loop"
    /\ idx < NumSlides
    /\ LET prompt == GetOr(CurrentSlide.image_prompt, Str(<<>>))
       IN IF prompt.t = "str"
          THEN /\ prompts' = _build_retry_prompts(prompt.s)
               /\ pc' = "C_ladder"
               /\ exc' = exc
          ELSE /\ prompts' = prompts
               /\ pc' = "C_raised"
               /\ exc' = "AttributeError"
    /\ sizes' = SetAt(sizes, idx,
                      ImageSize(GetOr(CurrentSlide.layout, LayoutLeftRight)))
    /\ ladder' = <<>>
    /\ UNCHANGED <<provider, files, results, drawn, canvas, idx>>
    /\ UNCHANGED planVars
    /\ UNCHANGED appVars
    /\ UNCHANGED mdVars
    /\ UNCHANGED pptxVars

\* One attempt of the ladder, with a capability whose calls do one of
\* outcomes.
AttemptWith(outcomes) ==
    /\ pc = "C_ladder"
    /\ Len(ladder) < Len(prompts)
    /\ LET useVertex == cred.vertex /\ provider = "google"
           useApiKey == cred.apikey /\ provider = "google"
       IN \E o1 \in (IF useVertex THEN outcomes ELSE {"fail"}) :
          \E o2 \in (IF useApiKey /\ ~(useVertex /\ Reports(o1))
                     THEN outcomes ELSE {"fail"}) :
            LET a == AttemptOn(prompts[Len(ladder) + 1], FileAt(files, SlidePath(idx)),
                               useVertex, useApiKey, o1, o2)
            IN /\ ladder' = Append(ladder, a)
               /\ files' = IF a.file = "absent" THEN files
                           ELSE WriteFile(files, SlidePath(idx), a.file)
               /\ pc' = LadderNext(a, Len(ladder) + 1, Len(prompts))
    /\ UNCHANGED <<exc, provider, results, drawn, sizes, canvas, idx, prompts>>
    /\ UNCHANGED planVars
    /\ UNCHANGED appVars
    /\ UNCHANGED mdVars
    /\ UNCHANGED pptxVars

\* One attempt of the ladder, with a capability that may do anything.
Attempt == AttemptWith(CapOutcomes)

\* Faulty variant: a ladder success is recorded as a fallback visual.
RecordImagen_AsShape ==
    /\ pc = "C_ladder_true"
    /\ results' = SetAt(results, idx,
                        [path |-> SlidePath(idx), type |-> "fallback_shape"])
    /\ idx' = idx + 1
    /\ pc' = "C_loop"
    /\ prompts' = <<>>
    /\ ladder' = <<>>
    /\ UNCHANGED <<exc, provider, files, drawn, sizes, canvas>>
    /\ UNCHANGED planVars
    /\ UNCHANGED appVars
    /\ UNCHANGED mdVars
    /\ UNCHANGED pptxVars

\* if success: results[i] = {"path": filepath, "type": "imagen"}
RecordImagen ==
    /\ pc = "C_ladder_true"
    /\ results' = SetAt(results, idx, [path |-> SlidePath(idx), type |-> "imagen"])
    /\ idx' = idx + 1
    /\ pc' = "C_loop"
    /\ prompts' = <<>>
    /\ ladder' = <<>>
    /\ UNCHANGED <<exc, provider, files, drawn, sizes, canvas>>
    /\ UNCHANGED planVars
    /\ UNCHANGED appVars
    /\ UNCHANGED mdVars
    /\ UNCHANGED pptxVars

\* else: _generate_shape_fallback(slide, ...) and the "fallback_shape" entry
ShapeFallback ==
    /\ pc = "C_ladder_false"
    /\ LET branch == ShapeBranch(CurrentSlide)
       IN IF branch = "TypeError"
          THEN /\ exc' = "TypeError"
               /\ pc' = "C_raised"
               /\ UNCHANGED <<files, results, drawn, sizes, canvas, idx>>
          ELSE /\ files' = WriteFile(files, SlidePath(idx), "full")
               /\ drawn' = SetAt(drawn, idx, branch)
               /\ \E img \in _generate_shape_fallback(CurrentSlide,
                                       sizes[idx].width, sizes[idx].height) :
                     canvas' = SetAt(canvas, idx, img)
               /\ sizes' = sizes
               /\ results' = SetAt(results, idx,
                                   [path |-> SlidePath(idx), type |-> "fallback_shape"])
               /\ idx' = idx + 1
               /\ pc' = "C_loop"
               /\ exc' = exc
    /\ prompts' = <<>>
    /\ ladder' = <<>>
    /\ UNCHANGED provider
    /\ UNCHANGED planVars
    /\ UNCHANGED appVars
    /\ UNCHANGED mdVars
    /\ UNCHANGED pptxVars

\* return results
GenReturn ==
    /\ pc = "C_loop"
    /\ idx >= NumSlides
    /\ pc' = "C_done"
    /\ UNCHANGED <<exc, prompts, ladder>>
    /\ UNCHANGED <<provider, files, results, drawn, sizes, canvas, idx>>
    /\ UNCHANGED planVars
    /\ UNCHANGED appVars
    /\ UNCHANGED mdVars
    /\ UNCHANGED pptxVars

\* ---------------------------------------------------------- specifications

\* generate_deck_json alone, on every planning output of AllPlanOutputs.
NextPlan ==
    \/ VertexCall(AllPlanOutputs)
    \/ ApiKeyCall(AllPlanOutputs)
    \/ TryReturn
    \/ TryExcept
    \/ NoAuth

SpecPlan == Init /\ [][NextPlan]_vars

\* The pipeline: generate_deck_json, then generate_slide_images on its deck.
Next ==
    \/ VertexCall(PipelinePlanOutputs)
    \/ ApiKeyCall(PipelinePlanOutputs)
    \/ TryReturn
    \/ TryExcept
    \/ NoAuth
    \/ GenStart
    \/ SlideBegin
    \/ Attempt
    \/ RecordImagen
    \/ ShapeFallback
    \/ GenReturn

Spec == Init /\ [][Next]_vars

\* Image prompts generate_slide_images is run on: heavy adjectives in lower
\* case, capitalized, in upper case and nested in one another, the two
\* markers present, absent, and present only as part of another phrase.
PromptPool ==
    { <<"A"," ","d","e","t","a","i","l","e","d"," ","m","a","p">>,
      <<"H","i","g","h","l","y"," ","d","e","t","a","i","l","e","d",","," ",
      "I","n","t","r","i","c","a","t","e"," "," ","c","i","t","y"," ","a",
      "t"," ","n","i","g","h","t">>,
      <<"A"," ","D","E","T","A","I","L","E","D"," ","m","a","p">>,
      <<"d","e","t","d","e","t","a","i","l","e","d","a","i","l","e","d"," ",
      "a","r","t">>,
      <<"c","o","m","p","l","e","x"," ","c","h","a","r","t",","," ","m","i",
      "n","i","m","a","l"," ","s","t","y","l","e",","," ","n","o"," ","t",
      "e","x","t">>,
      <<"a"," ","m","i","n","i","m","a","l","i","s","t"," ","p","o","s","t",
      "e","r">>,
      <<"E","l","a","b","o","r","a","t","e"," ","N","O"," ","T","E","X","T",
      " ","s","i","g","n">>,
      <<"a"," ","p","h","o","t","o"," ","w","i","t","h"," ","n","o"," ","t",
      "e","x","t","u","r","e","s">>,
      <<>>,
      <<" ","f","l","a","t"," ","i","c","o","n">> }

ImageSlide(p) ==
    Slide(Str(<<"P","l","a","n">>), Str(<<"[raw.message]">>), Str(<<"[raw.body]">>),
          List(<<<<"[raw.bullet1]">>>>), Str(p), LayoutLeftRight)

\* The decks generate_slide_images is run on by itself: the fallback deck
\* and one-slide decks over PromptPool.
ImageDecks ==
    {_create_fallback_deck}
    \cup {Deck(RawTitle, RawTheme, SlideList(<<ImageSlide(p)>>)) : p \in PromptPool}

InitImage ==
    /\ pc = "B_done"
    /\ exc = ""
    /\ cred \in [vertex : BOOLEAN, apikey : BOOLEAN]
    /\ called = ""
    /\ vin = NoDeck
    /\ vout = NoResult
    /\ deck \in ImageDecks
    /\ provider = ""
    /\ files = <<>>
    /\ results = <<>>
    /\ drawn = <<>>
    /\ sizes = <<>>
    /\ canvas = <<>>
    /\ idx = 0
    /\ prompts = <<>>
    /\ ladder = <<>>
    /\ cleared = {}
    /\ pptx = <<>>
    /\ md = NoMarkdown

\* generate_slide_images alone, on every deck of ImageDecks.
NextImage ==
    \/ GenStart
    \/ SlideBegin
    \/ Attempt
    \/ RecordImagen
    \/ ShapeFallback
    \/ GenReturn

SpecImage == InitImage /\ [][NextImage]_vars

\* A capability that is unavailable: no call reports success.
UnavailableOutcomes == {"fail", "raise", "raise_partial"}

\* The pipeline when every planning call raises and the image capability is
\* unavailable.
NextFallback ==
    \/ VertexCall({PlanRaises})
    \/ ApiKeyCall({PlanRaises})
    \/ TryExcept
    \/ NoAuth
    \/ GenStart
    \/ SlideBegin
    \/ AttemptWith(UnavailableOutcomes)
    \/ ShapeFallback
    \/ GenReturn

SpecFallback == Init /\ [][NextFallback]_vars

\* Faulty variant: the app calls generate_slide_images on the directory as
\* the last run left it.
AppGenStart_NoClear ==
    /\ pc = "B_done"
    /\ \E prov \in {"google", "other"} : provider' = prov
    /\ files' = files
    /\ cleared' = {}
    /\ results' = <<>>
    /\ drawn' = <<>>
    /\ sizes' = <<>>
    /\ canvas' = <<>>
    /\ idx' = 0
    /\ pc' = "C_loop"
    /\ UNCHANGED <<exc, prompts, ladder>>
    /\ UNCHANGED planVars
    /\ UNCHANGED pptxVars
    /\ UNCHANGED mdVars

\* Phase C of the app: shutil.rmtree(ASSETS_DIR) when the directory exists,
\* then the entry of generate_slide_images, whose makedirs creates it anew.
AppGenStart ==
    /\ pc = "B_done"
    /\ \E prov \in {"google", "other"} : provider' = prov
    /\ files' = <<>>
    /\ cleared' = DOMAIN files
    /\ results' = <<>>
    /\ drawn' = <<>>
    /\ sizes' = <<>>
    /\ canvas' = <<>>
    /\ idx' = 0
    /\ pc' = "C_loop"
    /\ UNCHANGED <<exc, prompts, ladder>>
    /\ UNCHANGED planVars
    /\ UNCHANGED pptxVars
    /\ UNCHANGED mdVars

\* The button is pressed again after a run that completed or showed its
\* error: a new run starts, and the assets directory is as the run left it.
AppRerun ==
    /\ pc \in {"C_done", "C_raised"}
    /\ pc' = "B_start"
    /\ exc' = ""
    /\ deck' = NoDeck
    /\ provider' = ""
    /\ results' = <<>>
    /\ drawn' = <<>>
    /\ sizes' = <<>>
    /\ canvas' = <<>>
    /\ idx' = 0
    /\ prompts' = <<>>
    /\ ladder' = <<>>
    /\ UNCHANGED <<cred, called, vin, vout, files, cleared>>
    /\ UNCHANGED pptxVars
    /\ UNCHANGED mdVars

\* Runs of the app, one after another, on one assets directory.
NextApp ==
    \/ VertexCall(PipelinePlanOutputs)
    \/ ApiKeyCall(PipelinePlanOutputs)
    \/ TryReturn
    \/ TryExcept
    \/ NoAuth
    \/ AppGenStart
    \/ SlideBegin
    \/ Attempt
    \/ RecordImagen
    \/ ShapeFallback
    \/ GenReturn
    \/ AppRerun

SpecApp == Init /\ [][NextApp]_vars

\* Titles the fallback renderer is run on: no keyword, each outcome and
\* problem keyword, an outcome and a problem keyword together, "effect" in
\* two letter cases, and no title key.
ShapeTitles ==
    { Str(<<"P","l","a","n">>),
      Str(<<"u5C0E","u5165","u52B9","u679C">>),
      Str(<<"u671F","u5F85">>),
      Str(<<"u73FE","u72B6","u306E","u8AB2","u984C">>),
      Str(<<"u554F","u984C","u70B9">>),
      Str(<<"u8AB2","u984C","u3068","u52B9","u679C">>),
      Str(<<"S","i","d","e"," ","E","F","F","E","C","T","S">>),
      Str(<<"N","e","t"," ","e","f","f","e","c","t">>),
      Absent }

\* Layout values: the three valid ones, an unknown one, null, and no key.
ShapeLayouts ==
    {LayoutTitle, LayoutLeftRight, LayoutImageFull, Str(<<"GRID">>), Null,
     Absent}

MaxBullets == 5

ShapeSlide(title, n, layout) ==
    Slide(title, Str(<<"[raw.message]">>), Str(<<"[raw.body]">>),
          List(Repeat(<<"[raw.bullet]">>, n)), Str(<<"a"," ","m","a","p">>), layout)

\* The one-slide decks generate_slide_images is run on to exercise the
\* size choice and the fallback renderer: every title with every bullet
\* count under the default and the full-bleed layout, and every layout value
\* on two of the titles.
ShapeDecks ==
    {Deck(RawTitle, RawTheme, SlideList(<<ShapeSlide(t, n, l)>>)) :
        t \in ShapeTitles, n \in 0..MaxBullets,
        l \in {LayoutLeftRight, LayoutImageFull}}
    \cup {Deck(RawTitle, RawTheme, SlideList(<<ShapeSlide(t, n, l)>>)) :
        t \in {Str(<<"u671F","u5F85">>), Absent}, n \in {0, 3}, l \in ShapeLayouts}

InitShape ==
    /\ pc = "B_done"
    /\ exc = ""
    /\ cred \in [vertex : BOOLEAN, apikey : BOOLEAN]
    /\ called = ""
    /\ vin = NoDeck
    /\ vout = NoResult
    /\ deck \in ShapeDecks
    /\ provider = ""
    /\ files = <<>>
    /\ results = <<>>
    /\ drawn = <<>>
    /\ sizes = <<>>
    /\ canvas = <<>>
    /\ idx = 0
    /\ prompts = <<>>
    /\ ladder = <<>>
    /\ cleared = {}
    /\ pptx = <<>>
    /\ md = NoMarkdown

\* generate_slide_images alone, on every deck of ShapeDecks.
SpecShape == InitShape /\ [][NextImage]_vars

\* ------------------------------------------------ slide_builder.build_pptx

\* bool(v) in "if message:", "if body:", "if bullets:"; Num is a number
\* other than 0.
Truthy(v) ==
    CASE v.t = "str" -> v.s # <<>>
      [] v.t = "list" -> v.l # <<>>
      [] v.t = "num" -> TRUE
      [] OTHER -> FALSE

\* p.text = v: python-pptx accepts a str and raises on any other value.
TextRaises(v) == v.t # "str"

\* img_path after the entry is read and the file verified: the number of
\* the entry's file when slide i has an entry and its file exists and is
\* not empty; 0 (None) otherwise.
ImagePath(res, dir, i) ==
    IF i \notin DOMAIN res THEN 0
    ELSE IF FileVerified(FileAt(dir, res[i].path)) THEN res[i].path
    ELSE 0

\* _draw_ppt_inline_shapes: the title keywords are tested first, the problem
\* keywords before the outcome keywords, then the bullet count.
_draw_ppt_inline_shapes(sd) ==
    LET title == GetOr(sd.title, Str(<<>>))
        bullets == GetOr(sd.bullets, List(<<>>))
    IN IF TitleTestRaises(title) THEN "TypeError"
       ELSE IF KwInTitle(KwKadai, title) \/ KwInTitle(KwMondai, title)
       THEN "warning"
       ELSE IF KwInTitle(KwKouka, title) \/ KwInTitle(KwKitai, title)
       THEN "chart"
       ELSE IF BulletCount(bullets) = -1 THEN "TypeError"
       ELSE IF BulletCount(bullets) >= 3 THEN "cards"
       ELSE "flow"

\* "if v: p.text = v" raises
OptionalTextRaises(v) == Truthy(v) /\ TextRaises(v)

\* One slide as a _build_* function leaves it: the deck index it was built
\* from, its layout, the file embedded with add_picture (0: none), the
\* PPT-native shapes drawn in place of a picture ("none": none), and the
\* exception the function raised ("": none).
Built(i, layout, picture, shapes, e) ==
    [index |-> i, layout |-> layout, picture |-> picture, shapes |-> shapes,
     exc |-> e]

\* _build_title_slide: the picture or the decorative shapes, then the title
\* and the message.
_build_title_slide(i, sd, img) ==
    Built(i, "TITLE", img, IF img = 0 THEN "decorative" ELSE "none",
          IF \/ TextRaises(GetOr(sd.title, Str(<<>>)))
             \/ OptionalTextRaises(GetOr(sd.message, Str(<<>>)))
          THEN "TypeError" ELSE "")

\* _build_image_full: the picture or the decorative shapes, then the strip
\* with title, message and body.
_build_image_full(i, sd, img) ==
    Built(i, "IMAGE_FULL_TEXT_BOTTOM", img,
          IF img = 0 THEN "decorative" ELSE "none",
          IF \/ TextRaises(GetOr(sd.title, Str(<<>>)))
             \/ OptionalTextRaises(GetOr(sd.message, Str(<<>>)))
             \/ OptionalTextRaises(GetOr(sd.body, Str(<<>>)))
          THEN "TypeError" ELSE "")

\* Faulty variant: a slide with no image file is left without a visual.
_build_text_left_image_right_Bare(i, sd, img) ==
    Built(i, "TITLE_LEFT_IMAGE_RIGHT", img, "none", "")

\* _build_text_left_image_right: the title bar, message, body and bullets
\* first (a number as bullets cannot be iterated), then the picture, or the
\* inline shapes when there is no image file.
_build_text_left_image_right(i, sd, img) ==
    LET bullets == GetOr(sd.bullets, List(<<>>))
        textRaises ==
            \/ TextRaises(GetOr(sd.title, Str(<<>>)))
            \/ OptionalTextRaises(GetOr(sd.message, Str(<<>>)))
            \/ OptionalTextRaises(GetOr(sd.body, Str(<<>>)))
            \/ bullets.t = "num"
        shapes == _draw_ppt_inline_shapes(sd)
    IN IF textRaises
       THEN Built(i, "TITLE_LEFT_IMAGE_RIGHT", 0, "none", "TypeError")
       ELSE IF img # 0
       THEN Built(i, "TITLE_LEFT_IMAGE_RIGHT", img, "none", "")
       ELSE IF shapes = "TypeError"
       THEN Built(i, "TITLE_LEFT_IMAGE_RIGHT", 0, "none", "TypeError")
       ELSE Built(i, "TITLE_LEFT_IMAGE_RIGHT", 0, shapes, "")

\* prs = Presentation() and the theme: theme.get needs a dict.
BuildStart ==
    /\ pc = "C_done"
    /\ pptx' = <<>>
    /\ idx' = 0
    /\ IF GetOr(deck.theme, DefaultTheme).t = "dict"
       THEN pc' = "D_loop" /\ exc' = exc
       ELSE pc' = "D_raised" /\ exc' = "AttributeError"
    /\ UNCHANGED <<provider, files, results, drawn, sizes, canvas, prompts,
                   ladder>>
    /\ UNCHANGED planVars
    /\ UNCHANGED appVars
    /\ UNCHANGED mdVars

\* Faulty variant: the bullets are consumed from the deck as they are put on
\* the slide.
BuildSlide_ConsumesBullets ==
    /\ pc = "D_loop"
    /\ idx < NumSlides
    /\ pptx' = Append(pptx, _build_text_left_image_right(
                               idx, CurrentSlide,
                               ImagePath(results, files, idx)))
    /\ deck' = [deck EXCEPT !.slides.e[idx + 1].bullets = List(<<>>)]
    /\ idx' = idx + 1
    /\ UNCHANGED <<pc, exc, cred, called, vin, vout>>
    /\ UNCHANGED <<provider, files, results, drawn, sizes, canvas, prompts,
                   ladder>>
    /\ UNCHANGED appVars
    /\ UNCHANGED mdVars

\* One iteration of the loop of build_pptx: the slide's layout, its image
\* entry and file, and the _build_* function the layout selects.
BuildSlide ==
    /\ pc = "D_loop"
    /\ idx < NumSlides
    /\ LET sd == CurrentSlide
           layout == GetOr(sd.layout, LayoutLeftRight)
           img == ImagePath(results, files, idx)
           built == IF layout = LayoutTitle
                    THEN _build_title_slide(idx, sd, img)
                    ELSE IF layout = LayoutImageFull
                    THEN _build_image_full(idx, sd, img)
                    ELSE _build_text_left_image_right(idx, sd, img)
       IN /\ pptx' = Append(pptx, built)
          /\ IF built.exc = ""
             THEN pc' = pc /\ idx' = idx + 1 /\ exc' = exc
             ELSE pc' = "D_raised" /\ idx' = idx /\ exc' = built.exc
    /\ UNCHANGED <<provider, files, results, drawn, sizes, canvas, prompts,
                   ladder>>
    /\ UNCHANGED planVars
    /\ UNCHANGED appVars
    /\ UNCHANGED mdVars

\* prs.save(output_path); return output_path
BuildSave ==
    /\ pc = "D_loop"
    /\ idx >= NumSlides
    /\ pc' = "D_done"
    /\ UNCHANGED <<exc, idx, pptx>>
    /\ UNCHANGED <<provider, files, results, drawn, sizes, canvas, prompts,
                   ladder>>
    /\ UNCHANGED planVars
    /\ UNCHANGED appVars
    /\ UNCHANGED mdVars

\* The app's pipeline: generate_deck_json, generate_slide_images, build_pptx.
NextPipeline ==
    \/ VertexCall(PipelinePlanOutputs)
    \/ ApiKeyCall(PipelinePlanOutputs)
    \/ TryReturn
    \/ TryExcept
    \/ NoAuth
    \/ GenStart
    \/ SlideBegin
    \/ Attempt
    \/ RecordImagen
    \/ ShapeFallback
    \/ GenReturn
    \/ BuildStart
    \/ BuildSlide
    \/ BuildSave

SpecPipeline == Init /\ [][NextPipeline]_vars

MaxPptxSlides == 2

PptxSlide(title, n, layout) ==
    Slide(title, Str(<<"[raw.message]">>), Str(<<"[raw.body]">>),
          List(Repeat(<<"[raw.bullet]">>, n)), Str(<<"a"," ","m","a","p">>), layout)

\* Validated slides build_pptx is run on: each layout, and under the default
\* layout a slide for each of the four inline diagrams.
PptxSlides ==
    {PptxSlide(Str(<<"P","l","a","n">>), n, l) :
        n \in {1, 3}, l \in {LayoutTitle, LayoutImageFull, LayoutLeftRight}}
    \cup {PptxSlide(Str(<<"u73FE","u72B6","u306E","u8AB2","u984C">>), 3, LayoutLeftRight),
          PptxSlide(Str(<<"u5C0E","u5165","u52B9","u679C">>), 0, LayoutLeftRight)}

PptxDecks ==
    {Deck(RawTitle, RawTheme, SlideList(q)) :
        q \in SeqsUpTo(PptxSlides, MaxPptxSlides)}

\* Image mappings for a deck of n slides: every slide has an entry with the
\* path of its file, or none.
PptxMappings(n) ==
    UNION {[D -> {"imagen", "fallback_shape"}] : D \in SUBSET (0..(n - 1))}

\* Output directories for a deck of n slides: each slide's file is missing,
\* empty, or holds an image.
PptxDirs(n) ==
    UNION {[D -> {"empty", "full"}] : D \in SUBSET (1..n)}

\* build_pptx called by itself on a deck, an image mapping and a directory.
InitPptx ==
    /\ pc = "C_done"
    /\ exc = ""
    /\ cred = [vertex |-> FALSE, apikey |-> FALSE]
    /\ called = ""
    /\ vin = NoDeck
    /\ vout = NoResult
    /\ deck \in PptxDecks
    /\ provider = ""
    /\ files \in PptxDirs(Len(deck.slides.e))
    /\ \E m \in PptxMappings(Len(deck.slides.e)) :
          results = [i \in DOMAIN m |-> [path |-> SlidePath(i), type |-> m[i]]]
    /\ drawn = <<>>
    /\ sizes = <<>>
    /\ canvas = <<>>
    /\ idx = 0
    /\ prompts = <<>>
    /\ ladder = <<>>
    /\ cleared = {}
    /\ pptx = <<>>
    /\ md = NoMarkdown

NextPptx ==
    \/ BuildStart
    \/ BuildSlide
    \/ BuildSave

SpecPptx == InitPptx /\ [][NextPptx]_vars

\* ------------------------------------------- markdown_parser.parse_markdown

\* line.startswith(prefix)
StartsWith(line, prefix) == MatchAt(line, prefix, 1)

\* line[k:].strip(), k 0-based
StripFrom(line, k) == Strip(SubSeq(line, k + 1, Len(line)))

\* The body of the loop of parse_markdown on one line of the input.
ParseStep(m, raw) ==
    LET line == Strip(raw)
    IN IF line = <<>> THEN m
       ELSE IF StartsWith(line, <<"#", " ">>)
       THEN [m EXCEPT !.presentation_title = StripFrom(line, 2)]
       ELSE IF StartsWith(line, <<"#", "#", " ">>)
       THEN [m EXCEPT !.slides = m.slides \o m.current_slide,
                      !.current_slide = <<[title |-> StripFrom(line, 3),
                                           bullets |-> <<>>]>>]
       ELSE IF StartsWith(line, <<"-", " ">>) /\ m.current_slide # <<>>
       THEN [m EXCEPT !.current_slide[1].bullets =
                          Append(@, StripFrom(line, 2))]
       ELSE m

MaxLines == 3

\* Lines of a markdown text: H1 lines, one of them indented, H2 lines, a
\* bullet, plain text, an empty line, and lines that begin with "#" but are
\* no heading.
MdLines ==
    { <<"#"," ","A","l","p","h","a">>, <<" "," ","#"," ","B","e","t","a"," "," ">>, <<"#","#"," ","O","n","e">>, <<"#","#"," ","T","w","o">>, <<"-"," ","i","t","e","m">>,
      <<"p","l","a","i","n">>, <<>>, <<"#","G","a","m","m","a">>, <<"#","#","#"," ","T","h","r","e","e">> }

\* lines = text.split('\n'); the title and the slide list as initialised.
InitMarkdown ==
    /\ pc = "M_loop"
    /\ exc = ""
    /\ cred = [vertex |-> FALSE, apikey |-> FALSE]
    /\ called = ""
    /\ vin = NoDeck
    /\ vout = NoResult
    /\ deck = NoDeck
    /\ provider = ""
    /\ files = <<>>
    /\ results = <<>>
    /\ drawn = <<>>
    /\ sizes = <<>>
    /\ canvas = <<>>
    /\ idx = 0
    /\ prompts = <<>>
    /\ ladder = <<>>
    /\ cleared = {}
    /\ pptx = <<>>
    /\ \E q \in SeqsUpTo(MdLines, MaxLines) :
          md = [lines |-> q, pos |-> 0,
                presentation_title |-> UntitledPresentation,
                slides |-> <<>>, current_slide |-> <<>>]

\* for line in lines: one iteration
ParseLine ==
    /\ pc = "M_loop"
    /\ md.pos < Len(md.lines)
    /\ md' = [ParseStep(md, md.lines[md.pos + 1]) EXCEPT !.pos = md.pos + 1]
    /\ UNCHANGED <<pc, exc>>
    /\ UNCHANGED planVars
    /\ UNCHANGED imgVars
    /\ UNCHANGED appVars
    /\ UNCHANGED pptxVars

\* After the loop: the last slide is appended and the dict returned.
ParseReturn ==
    /\ pc = "M_loop"
    /\ md.pos >= Len(md.lines)
    /\ md' = [md EXCEPT !.slides = md.slides \o md.current_slide,
                        !.current_slide = <<>>]
    /\ pc' = "M_done"
    /\ UNCHANGED exc
    /\ UNCHANGED planVars
    /\ UNCHANGED imgVars
    /\ UNCHANGED appVars
    /\ UNCHANGED pptxVars

NextMarkdown ==
    \/ ParseLine
    \/ ParseReturn

SpecMarkdown == InitMarkdown /\ [][NextMarkdown]_vars

\* ------------------------------------------------------------------ claims

\* A title holds an outcome keyword: kouka, or "effect" in any letter case
\* (on a title that is a list, Python's in is membership).
OutcomeTitle(title) ==
    \/ /\ title.t = "str"
       /\ \/ Contains(KwKouka, title.s)
          \/ \E k \in 1..(Len(title.s) + 1) : MatchAt(Lower(title.s), KwEffect, k)
    \/ /\ title.t = "list"
       /\ KwKouka \in {title.l[k] : k \in 1..Len(title.l)}

HasSlides(d) == d.kind = "dict" /\ d.slides.t = "list" /\ d.slides.e # <<>>

\* The Validator was called (on vin) and the try block has ended.
ValidatorCalled == pc = "B_tried" /\ vin.kind # "none"

ImagePhaseOver == pc \in {"C_done", "C_raised"}

\* C1's decks: every slide a dict with a str image_prompt and a list of str
\* as bullets.
C1_Deck(d) ==
    /\ HasSlides(d)
    /\ \A k \in 1..Len(d.slides.e) :
         /\ d.slides.e[k].kind = "dict"
         /\ d.slides.e[k].image_prompt.t = "str"
         /\ d.slides.e[k].bullets.t = "list"

\* C1: on a deck of N slides, each with a str image_prompt and a list of str
\* bullets, generate_slide_images returns, its mapping has exactly the keys
\* 0..N-1, and every entry's path is a non-empty file.
C1_TotalVisuals ==
    (ImagePhaseOver /\ C1_Deck(deck)) =>
        /\ pc = "C_done"
        /\ DOMAIN results = 0..(NumSlides - 1)
        /\ \A k \in DOMAIN results : FileAt(files, results[k].path) = "full"

\* C2: generate_deck_json raises nothing and always comes to return a deck
\* with at least one slide, whatever the credentials and the planning calls.
C2_DeckNeverEmpty ==
    /\ exc = ""
    /\ pc \in {"B_start", "B_tried", "B_apikey", "B_done"}
    /\ pc # "B_done" => ENABLED NextPlan
    /\ pc = "B_done" => HasSlides(deck)

C2_Witness ==
    /\ pc = "B_done"
    /\ cred.vertex /\ cred.apikey
    /\ deck = _create_fallback_deck

\* C3: generate_slide_images never raises, on any deck the Validator returns
\* and for any behaviour of the image capability.
C3_NoEscapingException == pc # "C_raised"

\* C4: _validate_and_fix raises nothing, whatever parsed value it is given.
C4_ValidatorNeverRaises == ValidatorCalled => ~vout.raised

\* C5: an attempt is verified only if the capability reported success in it
\* and it left a non-empty file; a success that wrote nothing or an empty
\* file is a failed attempt, whatever the directory held before.
C5_VerifiedOnlyIfWritten ==
    \A k \in 1..Len(ladder) :
       /\ ladder[k].verified => ladder[k].success /\ ladder[k].left = "full"
       /\ (ladder[k].success /\ ladder[k].wrote \in {"none", "empty"})
             => ~ladder[k].verified

\* C6: the ladder tries the original, the shortened and the ultra-safe
\* prompt in this order, goes on only after a failed attempt, stops at the
\* first verified one, and reports failure after exactly three failures.
C6_LadderOrder ==
    pc \in {"C_ladder", "C_ladder_true", "C_ladder_false"} =>
        /\ Len(prompts) = 3
        /\ prompts[1] = CurrentSlide.image_prompt.s
        /\ prompts[3] = SafePrompt
        /\ Len(ladder) <= 3
        /\ \A k \in 1..Len(ladder) : ladder[k].prompt = prompts[k]
        /\ \A k \in 1..(Len(ladder) - 1) : ~ladder[k].verified
        /\ pc = "C_ladder" =>
              \A k \in 1..Len(ladder) : ~ladder[k].verified
        /\ pc = "C_ladder_true" => ladder[Len(ladder)].verified
        /\ pc = "C_ladder_false" =>
              /\ Len(ladder) = 3
              /\ \A k \in 1..3 : ~ladder[k].verified

C6_Witness ==
    /\ pc = "C_ladder_false"
    /\ Len(ladder) = 3
    /\ \A k \in 1..3 : ladder[k].calls >= 1

\* The raw planning outputs C7 is about: a dict whose slides are dicts with
\* titles that are strings (or missing) holding no outcome keyword.
C7_Raw(d) ==
    /\ d.kind = "dict"
    /\ d.slides.t \in {"absent", "list"}
    /\ \A k \in 1..Len(d.slides.e) :
         /\ d.slides.e[k].kind = "dict"
         /\ d.slides.e[k].title.t \in {"absent", "str"}
         /\ d.slides.e[k].layout.t # "list"
         /\ ~OutcomeTitle(d.slides.e[k].title)

\* The result has one slide more than the input, every value an input slide
\* held is still at its position, and the last slide has an outcome title.
C7_OneMore(in, out) ==
    /\ ~out.raised
    /\ Len(out.deck.slides.e) = Len(in.slides.e) + 1
    /\ \A k \in 1..Len(in.slides.e) :
         /\ out.deck.slides.e[k].kind = "dict"
         /\ \A f \in _REQUIRED_SLIDE_KEYS \ {"layout"} :
              in.slides.e[k][f] # Absent =>
                 out.deck.slides.e[k][f] = in.slides.e[k][f]
    /\ OutcomeTitle(out.deck.slides.e[Len(out.deck.slides.e)].title)

C8_OutcomeSlidePresent ==
    pc = "B_done" =>
        \E k \in 1..Len(deck.slides.e) : OutcomeTitle(deck.slides.e[k].title)

C8_Witness ==
    /\ pc = "B_done"
    /\ deck # _create_fallback_deck
    /\ deck.slides.e[Len(deck.slides.e)] # _make_effect_slide

WellFormedSlides(d) ==
    /\ HasSlides(d)
    /\ \A k \in 1..Len(d.slides.e) :
         /\ d.slides.e[k].kind = "dict"
         /\ \A f \in _REQUIRED_SLIDE_KEYS : d.slides.e[k][f] # Absent
         /\ d.slides.e[k].layout \in
               {LayoutTitle, LayoutLeftRight, LayoutImageFull}

\* C9: in every deck the Validator or the fallback synthesizer returns,
\* every slide has its six fields and a layout of the closed set.
C9_SlidesComplete ==
    /\ (ValidatorCalled /\ ~vout.raised) => WellFormedSlides(vout.deck)
    /\ pc = "B_done" => WellFormedSlides(deck)

C9_Witness ==
    /\ ValidatorCalled
    /\ ~vout.raised
    /\ Len(vin.slides.e) = 2
    /\ vin.slides.e[1] = Slide(Absent, Absent, Absent, Absent, Absent, Absent)
    /\ vin.slides.e[2].layout = Str(<<"GRID">>)

\* C10: on a raw output without a slides key or with an empty slide list the
\* Validator returns exactly the four-slide fallback deck, and nothing of
\* the input (deck_title, theme) is in it.
C10_EmptyInputDiscarded ==
    (ValidatorCalled /\ vin.kind = "dict" /\ vin.slides.t \in {"absent", "list"}
       /\ vin.slides.e = <<>>)
        => /\ ~vout.raised
           /\ vout.deck = _create_fallback_deck
           /\ Len(vout.deck.slides.e) = 4
           /\ vin.deck_title # Absent => vout.deck.deck_title # vin.deck_title
           /\ vin.theme # Absent => vout.deck.theme # vin.theme

C10_Witness ==
    /\ ValidatorCalled
    /\ vin = Deck(RawTitle, RawTheme, SlideList(<<>>))
    /\ ~vout.raised

\* C11: the Validator run on a deck it returned returns that deck unchanged:
\* same slides in the same order, same field values, same deck_title and
\* theme.
C11_Idempotent ==
    (ValidatorCalled /\ ~vout.raised)
        => _validate_and_fix(vout.deck) = Returned(vout.deck)

C11_Witness ==
    /\ ValidatorCalled
    /\ ~vout.raised
    /\ Len(vin.slides.e) = 2
    /\ vin.deck_title = Absent
    /\ vin.slides.e[1].layout \notin _VALID_LAYOUTS
    /\ vin.slides.e[2].title = Absent
    /\ vout.deck.slides.e[3] = _make_effect_slide

\* p holds one of the heavy adjectives, in any letter case.
HasHeavyAdjective(p) ==
    \E k \in 1..Len(HeavyAdjectives) : Contains(HeavyAdjectives[k], Lower(p))

\* The attempts so far are those of a capability that is called in every
\* attempt, fails on a prompt holding a heavy adjective, and writes a
\* non-empty file and reports success on every other prompt.
FailsOnHeavyAdjectives ==
    \A k \in 1..Len(ladder) :
       /\ ladder[k].calls >= 1
       /\ HasHeavyAdjective(ladder[k].prompt) => ~ladder[k].success
       /\ ~HasHeavyAdjective(ladder[k].prompt) =>
             ladder[k].success /\ ladder[k].wrote = "full"

\* C12: with a capability that fails exactly on the prompts holding a heavy
\* adjective, the ladder of a prompt that holds one fails on attempt 1 and
\* succeeds on attempt 2.
C12_SucceedsOnSecond ==
    (/\ pc \in {"C_ladder_true", "C_ladder_false"}
     /\ FailsOnHeavyAdjectives
     /\ HasHeavyAdjective(prompts[1]))
        => /\ pc = "C_ladder_true"
           /\ Len(ladder) = 2
           /\ ~ladder[1].verified
           /\ ladder[2].verified

\* The case in which C12 does hold: the adjective is spelled as listed.
C12_Witness ==
    /\ pc = "C_ladder_true"
    /\ FailsOnHeavyAdjectives
    /\ prompts[1] = <<"A"," ","d","e","t","a","i","l","e","d"," ","m","a","p">>
    /\ Len(ladder) = 2

\* The titles of the fallback deck, in order: cover, current challenges,
\* proposed solution, expected outcome.
C13_Titles ==
    << Str(<<"u63D0","u6848","u8CC7","u6599">>), Str(<<"u73FE","u72B6","u306E","u8AB2","u984C">>), Str(<<"u89E3","u6C7A","u7B56">>), Str(<<"u671F","u5F85","u52B9","u679C">>) >>

\* C13: when every planning call raises and the image capability is
\* unavailable, no try block returns, the deck generate_deck_json returns
\* has exactly the four fallback titles in order, the ladder never reports
\* success, and generate_slide_images returns "fallback_shape" for all four
\* slides.
C13_FallbackEndToEnd ==
    /\ pc = "B_tried" => vout.raised
    /\ pc \notin {"C_ladder_true", "C_raised"}
    /\ pc \notin {"B_start", "B_tried", "B_apikey"} =>
          /\ Len(deck.slides.e) = 4
          /\ \A k \in 1..4 : deck.slides.e[k].title = C13_Titles[k]
    /\ pc = "C_done" =>
          /\ DOMAIN results = 0..3
          /\ \A k \in 0..3 : results[k].type = "fallback_shape"

C13_Witness ==
    /\ pc = "C_done"
    /\ cred.vertex /\ cred.apikey
    /\ provider = "google"
    /\ DOMAIN results = 0..3

\* C14: in a validated deck the first slide has layout TITLE, and on every
\* later slide a missing or unrecognized layout has become the default
\* TITLE_LEFT_IMAGE_RIGHT.
C14_FirstSlideIsTitle ==
    (ValidatorCalled /\ ~vout.raised) =>
        /\ vout.deck.slides.e[1].layout = LayoutTitle
        /\ \A k \in 2..Len(vin.slides.e) :
              vin.slides.e[k].layout \notin _VALID_LAYOUTS =>
                 vout.deck.slides.e[k].layout = LayoutLeftRight

\* The part of C14 the code does keep: a missing or unrecognized layout
\* becomes the default on every slide, the first included.
C14_Witness ==
    /\ ValidatorCalled
    /\ ~vout.raised
    /\ Len(vin.slides.e) = 2
    /\ vin.slides.e[1].layout = Absent
    /\ vin.slides.e[2].layout = Str(<<"GRID">>)
    /\ vout.deck.slides.e[1].layout = LayoutLeftRight
    /\ vout.deck.slides.e[2].layout = LayoutLeftRight

\* C15: the step after a ladder that reported success records "imagen" for
\* the slide and does not invoke the fallback renderer; the step after a
\* ladder that reported failure is the fallback renderer, followed (when it
\* returns) by the "fallback_shape" entry; no other step of the slide loop
\* records or draws anything, so an entry is "fallback_shape" exactly when
\* the renderer drew the slide.
C15_OriginMatchesLadder ==
    [][/\ pc = "C_ladder_true" =>
            /\ ladder[Len(ladder)].verified
            /\ idx \in DOMAIN results'
            /\ results'[idx].type = "imagen"
            /\ drawn' = drawn
       /\ pc = "C_ladder_false" =>
            /\ \A k \in 1..Len(ladder) : ~ladder[k].verified
            /\ \/ pc' = "C_raised" /\ results' = results /\ drawn' = drawn
               \/ /\ idx \in DOMAIN drawn'
                  /\ idx \in DOMAIN results'
                  /\ results'[idx].type = "fallback_shape"
       /\ pc \in {"C_loop", "C_ladder", "C_done", "C_raised"} =>
            results' = results /\ drawn' = drawn
       /\ \A k \in DOMAIN results' :
            /\ results'[k].type \in {"imagen", "fallback_shape"}
            /\ results'[k].type = "fallback_shape" <=> k \in DOMAIN drawn'
      ]_vars

C15_Witness ==
    /\ pc = "C_done"
    /\ NumSlides = 2
    /\ results[0].type = "imagen"
    /\ results[1].type = "fallback_shape"
    /\ DOMAIN drawn = {1}

\* C16: the slide loop takes the slides in deck order, one index at a time;
\* the attempts of slide i run on slide i's own prompt and write only
\* slide_<i+1>.png; results[i].path is that file, so no two slides share
\* one; the image engine leaves the deck as it is; and the Validator keeps
\* every input slide at its position.
C16_DeckOrder ==
    [][/\ idx' \in {idx, idx + 1}
       /\ idx' = idx + 1 => DOMAIN results' = 0..idx
       /\ \A k \in DOMAIN results' : results'[k].path = k + 1
       /\ \A j, k \in DOMAIN results' :
             j # k => results'[j].path # results'[k].path
       /\ pc \in {"C_loop", "C_ladder", "C_ladder_true", "C_ladder_false"} =>
             /\ deck' = deck
             /\ \A j \in DOMAIN files \cup DOMAIN files' :
                   j # idx + 1 => FileAt(files', j) = FileAt(files, j)
       /\ pc' = "C_ladder" =>
             /\ idx' = idx
             /\ prompts'[1] = deck.slides.e[idx + 1].image_prompt.s
       /\ (pc' = "B_tried" /\ ~vout'.raised /\ vin'.slides.e # <<>>) =>
             /\ Len(vout'.deck.slides.e) >= Len(vin'.slides.e)
             /\ \A k \in 1..Len(vin'.slides.e) :
                   \A f \in _REQUIRED_SLIDE_KEYS \ {"layout"} :
                      vin'.slides.e[k][f] # Absent =>
                         vout'.deck.slides.e[k][f] = vin'.slides.e[k][f]
      ]_vars

C16_Witness ==
    /\ pc = "C_done"
    /\ NumSlides = 4
    /\ DOMAIN results = 0..3
    /\ results[0].type = "imagen"
    /\ results[3].type = "fallback_shape"
    /\ \A k \in 1..4 : FileAt(files, k) = "full"

\* C17: in the app every image phase starts on an empty assets directory,
\* and when a run has completed the directory holds exactly the files
\* slide_1.png .. slide_N.png of its N slides, whatever earlier runs left.
C17_NoCrossRunFiles ==
    /\ (pc = "C_loop" /\ idx = 0) => files = <<>>
    /\ pc = "C_done" => DOMAIN files = 1..NumSlides

C17_Witness ==
    /\ pc = "C_done"
    /\ NumSlides = 1
    /\ cleared = 1..4
    /\ DOMAIN files = {1}

\* C18 as claimed: in the fallback scenario the renderer draws the cover
\* (slide 1) as the generic flow diagram and the expected-outcome slide
\* (slide 4) as the bar chart.
C18_CoverFlowOutcomeChart ==
    pc = "C_done" =>
        /\ DOMAIN drawn = 0..3
        /\ drawn[0] = "flow"
        /\ drawn[3] = "chart"

\* C18 as amended: the cover is drawn as the generic flow diagram; the
\* expected-outcome slide has four bullets, so the bullet-count rule, which
\* comes first, draws it as cards, as it does slides 2 and 3.
C18_CoverFlowOutcomeCards ==
    /\ \A k \in DOMAIN drawn : drawn[k] = IF k = 0 THEN "flow" ELSE "card"
    /\ pc = "C_done" => DOMAIN drawn = 0..3

C18_Witness ==
    /\ pc = "C_done"
    /\ ~cred.vertex /\ cred.apikey
    /\ provider = "google"
    /\ DOMAIN drawn = 0..3
    /\ BulletCount(deck.slides.e[4].bullets) = 4
    /\ KwInTitle(KwKouka, deck.slides.e[4].title)

\* C19: the attempt-2 prompt holds none of the heavy adjectives, in any
\* letter case, whatever the original prompt.
C19_NoHeavyAdjectiveLeft ==
    Len(prompts) = 3 => ~HasHeavyAdjective(prompts[2])

\* The case in which C19 does hold: adjectives spelled in lower case or
\* capitalized are removed.
C19_Witness ==
    /\ Len(prompts) = 3
    /\ prompts[1] = <<"H","i","g","h","l","y"," ","d","e","t","a","i","l","e","d",","," ",
      "I","n","t","r","i","c","a","t","e"," "," ","c","i","t","y"," ","a",
      "t"," ","n","i","g","h","t">>
    /\ prompts[2] = <<"H","i","g","h","l","y"," ",","," ","c","i","t","y"," ","a","t"," ",
      "n","i","g","h","t",","," ","m","i","n","i","m","a","l"," ","s","t",
      "y","l","e",","," ","n","o"," ","t","e","x","t">>
    /\ Len(ladder) = 2

\* The marker "minimal style": the suffix without its leading ", ".
C20_MinimalStyle == SubSeq(SuffixMinimal, 3, Len(SuffixMinimal))

\* C20: the attempt-2 prompt is the adjective-stripped prompt followed by
\* the marker "minimal style" exactly when the stripped prompt does not hold
\* it and by the marker "no text" exactly when it does not hold that, so it
\* holds both markers (letter case aside) and none is added twice.
C20_BothMarkersOnce ==
    Len(prompts) = 3 =>
        LET stripped == Strip(CollapseSpaces(StripAdjectives(prompts[1], 1)))
            addMinimal == ~Contains(C20_MinimalStyle, Lower(stripped))
            addNoText == ~Contains(KwNoText, Lower(stripped))
        IN /\ prompts[2] = stripped
                             \o (IF addMinimal THEN SuffixMinimal ELSE <<>>)
                             \o (IF addNoText THEN SuffixNoText ELSE <<>>)
           /\ Contains(C20_MinimalStyle, Lower(prompts[2]))
           /\ Contains(KwNoText, Lower(prompts[2]))

\* The case in which C20 does hold: both markers present, none added.
C20_Witness ==
    /\ Len(prompts) = 3
    /\ prompts[1] = <<"c","o","m","p","l","e","x"," ","c","h","a","r","t",","," ","m","i",
      "n","i","m","a","l"," ","s","t","y","l","e",","," ","n","o"," ","t",
      "e","x","t">>
    /\ prompts[2] = <<"c","h","a","r","t",","," ","m","i","n","i","m","a","l"," ","s","t",
      "y","l","e",","," ","n","o"," ","t","e","x","t">>
    /\ pc = "C_ladder_false"

\* C21: the three prompts of a slide's ladder are pairwise distinct:
\* attempt 1 is the slide's prompt as it is, attempt 3 is the fixed
\* ultra-safe prompt, and attempt 2 differs from both.
C21_DistinctVariants ==
    (Len(prompts) = 3 /\ pc = "C_ladder") =>
        /\ prompts[1] = CurrentSlide.image_prompt.s
        /\ prompts[3] = SafePrompt
        /\ prompts[1] # prompts[2]
        /\ prompts[2] # prompts[3]
        /\ prompts[1] # prompts[3]

\* The case in which C21 does hold: a prompt the shortening changes.
C21_Witness ==
    /\ pc = "C_ladder"
    /\ Len(ladder) = 2
    /\ prompts[1] = <<"A"," ","d","e","t","a","i","l","e","d"," ","m","a","p">>
    /\ prompts[2] = <<"A"," ","m","a","p",","," ","m","i","n","i","m","a","l"," ","s","t",
      "y","l","e",","," ","n","o"," ","t","e","x","t">>
    /\ prompts[3] = SafePrompt

\* A path to the image capability is configured: the provider is "google"
\* and Vertex credentials or an API key are set.
C22_Configured == provider = "google" /\ (cred.vertex \/ cred.apikey)

\* C22 as claimed: in every configuration every attempt calls the image
\* capability at least once.
C22_EveryAttemptCalls ==
    \A k \in 1..Len(ladder) : ladder[k].calls >= 1

\* C22 as amended: every attempt calls the capability at least once exactly
\* when a path to it is configured; otherwise no attempt calls it, no
\* attempt succeeds, and the ladder reports failure after three attempts
\* without a call.
C22_CallsWhenConfigured ==
    /\ \A k \in 1..Len(ladder) :
          /\ ladder[k].calls >= 1 <=> C22_Configured
          /\ ladder[k].calls = 0 => ~ladder[k].success
    /\ (pc = "C_ladder_true" /\ Len(ladder) > 0) => C22_Configured

C22_Witness ==
    /\ pc = "C_ladder_true"
    /\ provider = "google"
    /\ cred.vertex /\ ~cred.apikey
    /\ Len(ladder) = 3
    /\ \A k \in 1..3 : ladder[k].calls = 1

\* The calls of the image capability made so far for the current slide.
C23_TotalCalls ==
    LET c(k) == IF k <= Len(ladder) THEN ladder[k].calls ELSE 0
    IN c(1) + c(2) + c(3) + c(4)

\* C23 as claimed: the ladder of one slide makes at most three calls of the
\* image capability, in every credential configuration.
C23_AtMostThreeCalls == C23_TotalCalls <= 3

\* C23 as amended: the ladder makes at most three attempts; an attempt makes
\* at most one call per configured path (Vertex first, the API key when
\* Vertex did not report success), so at most three calls with one path
\* configured and at most six with both.
C23_AtMostThreeAttempts ==
    /\ Len(ladder) <= 3
    /\ \A k \in 1..Len(ladder) :
          ladder[k].calls <= (IF cred.vertex THEN 1 ELSE 0)
                               + (IF cred.apikey THEN 1 ELSE 0)
    /\ ~(cred.vertex /\ cred.apikey) => C23_TotalCalls <= 3
    /\ C23_TotalCalls <= 6

C23_Witness ==
    /\ pc = "C_ladder_false"
    /\ cred.vertex /\ cred.apikey
    /\ provider = "google"
    /\ C23_TotalCalls = 6

\* How many times the drawing q holds the shape x.
Count(q, x) == Cardinality({k \in 1..Len(q) : q[k] = x})

\* Slide k of the deck (0-based), its bullet count, and whether its title
\* holds one of two keywords.
C24_Slide(k) == deck.slides.e[k + 1]

C24_Bullets(k) == BulletCount(GetOr(C24_Slide(k).bullets, List(<<>>)))

C24_TitleHas(k, kw1, kw2) ==
    LET title == GetOr(C24_Slide(k).title, Str(<<>>))
    IN title.t = "str" /\ (Contains(kw1, title.s) \/ Contains(kw2, title.s))

\* C24: every image the fallback renderer saved holds exactly one diagram,
\* chosen in this order: 3 or more bullets, min(bullets, 4) cards; else an
\* outcome keyword in the title, the bar chart; else a problem keyword, the
\* warning triangle; else the flow of 3 boxes; and the last thing drawn is
\* the one branding strip.
C24_OneDiagramByPriority ==
    \A k \in DOMAIN canvas :
        LET ops == canvas[k].ops
            n == C24_Bullets(k)
            cards == Count(ops, "card")
            bars == Count(ops, "bar")
            triangles == Count(ops, "triangle")
            boxes == Count(ops, "box")
        IN /\ ops[Len(ops)] = "strip"
           /\ Count(ops, "strip") = 1
           /\ IF n >= 3
              THEN cards = Min(n, 4) /\ bars = 0 /\ triangles = 0 /\ boxes = 0
              ELSE IF C24_TitleHas(k, KwKouka, KwKitai)
              THEN cards = 0 /\ bars > 0 /\ triangles = 0 /\ boxes = 0
              ELSE IF C24_TitleHas(k, KwKadai, KwMondai)
              THEN cards = 0 /\ bars = 0 /\ triangles = 1 /\ boxes = 0
              ELSE cards = 0 /\ bars = 0 /\ triangles = 0 /\ boxes = 3

\* A slide with five bullets and both an outcome and a problem keyword in
\* its title was drawn as four cards.
C24_Witness ==
    /\ pc = "C_done"
    /\ 0 \in DOMAIN canvas
    /\ C24_Bullets(0) = 5
    /\ C24_TitleHas(0, KwKouka, KwKouka)
    /\ C24_TitleHas(0, KwKadai, KwKadai)
    /\ Count(canvas[0].ops, "card") = 4

\* C25: a slide whose title the validator took for an outcome title, and
\* which has fewer than 3 bullets, is drawn by the fallback renderer as the
\* bar chart.
C25_ValidatorOutcomeIsChart ==
    \A k \in DOMAIN drawn :
        (OutcomeTitle(C24_Slide(k).title) /\ C24_Bullets(k) < 3)
            => drawn[k] = "chart"

\* The case in which C25 does hold: a title with kouka, which both the
\* validator and the renderer look for, on a slide with no bullets, was
\* drawn as the bar chart and no outcome slide had been appended.
C25_Witness ==
    /\ pc = "C_done"
    /\ \A j \in 1..Len(deck.slides.e) : deck.slides.e[j] # _make_effect_slide
    /\ 0 \in DOMAIN drawn
    /\ OutcomeTitle(C24_Slide(0).title)
    /\ C24_Bullets(0) = 0
    /\ drawn[0] = "chart"

\* C26: for every slide the aspect handed to the retry ladder and the pixel
\* size handed to the fallback renderer are 16:9 and 1920x1080 exactly when
\* the slide's layout is IMAGE_FULL_TEXT_BOTTOM, and 1:1 and 1024x1024 for
\* every other layout value and for a slide with no layout.
C26_SizeFollowsLayout ==
    /\ \A k \in DOMAIN sizes :
          IF C24_Slide(k).layout = LayoutImageFull
          THEN sizes[k].aspect = "16:9"
          ELSE sizes[k].aspect = "1:1"
    /\ \A k \in DOMAIN canvas :
          IF C24_Slide(k).layout = LayoutImageFull
          THEN canvas[k].width = 1920 /\ canvas[k].height = 1080
          ELSE canvas[k].width = 1024 /\ canvas[k].height = 1024

\* The fallback image of a full-bleed slide was drawn at 1920x1080 after a
\* ladder that was handed 16:9.
C26_Witness ==
    /\ pc = "C_done"
    /\ 0 \in DOMAIN canvas
    /\ C24_Slide(0).layout = LayoutImageFull
    /\ sizes[0].aspect = "16:9"
    /\ canvas[0].width = 1920
    /\ canvas[0].height = 1080

\* C27: in every bar chart the fallback renderer drew, at either image
\* height, the bar heights increase strictly from left to right, and the
\* growth arrow is drawn exactly once, right after the last bar.
C27_BarsRiseArrowOnLast ==
    \A k \in DOMAIN canvas :
        drawn[k] = "chart" =>
            LET bars == canvas[k].bars
                ops == canvas[k].ops
                n == Len(bars)
            IN /\ canvas[k].height \in {1024, 1080}
               /\ n = Count(ops, "bar")
               /\ n >= 3
               /\ \A i \in 1..(n - 1) : bars[i] < bars[i + 1]
               /\ Count(ops, "arrow") = 1
               /\ \A j \in 1..n : ops[j] = "bar"
               /\ ops[n + 1] = "arrow"

\* A chart was drawn at height 1080 whose last bar fell one short of the
\* full height 880: the heights are 469, 674, 879.
C27_Witness ==
    /\ pc = "C_done"
    /\ 0 \in DOMAIN canvas
    /\ drawn[0] = "chart"
    /\ canvas[0].height = 1080
    /\ canvas[0].bars = <<469, 674, 879>>

\* generate_deck_json has returned: the run is in generate_slide_images or
\* build_pptx, or between them.
C28_AfterValidation == pc \notin {"B_start", "B_apikey", "B_tried"}

\* C28: once generate_deck_json has returned the deck, no step of
\* generate_slide_images or build_pptx changes it: the slides, their order,
\* every slide field, deck_title and theme stay as returned, whatever the
\* image capability does.
C28_DeckImmutable == [][C28_AfterValidation => deck' = deck]_vars

\* build_pptx has finished on a validated two-slide deck whose second slide
\* is the appended outcome slide, after an image phase in which one slide
\* got a synthesized image and the other the procedural fallback.
C28_Witness ==
    /\ pc = "D_done"
    /\ Len(deck.slides.e) = 2
    /\ deck.slides.e[2] = _make_effect_slide
    /\ Len(pptx) = 2
    /\ DOMAIN drawn = {1}
    /\ results[0].type = "imagen"

\* The image of deck slide i is unavailable: the mapping has no entry for
\* it, or the entry's file is missing or empty.
C29_Unavailable(i) ==
    \/ i \notin DOMAIN results
    \/ FileAt(files, results[i].path) \in {"absent", "empty"}

\* C29: build_pptx raises nothing and adds one slide per deck slide, in deck
\* order, N in all when it returns; a slide whose image is unavailable gets
\* PPT-native shapes and no picture, every other slide gets its file as a
\* picture, so every slide has a visual and no missing or empty file is
\* embedded.
C29_EverySlideHasVisual ==
    /\ pc # "D_raised"
    /\ Len(pptx) <= Len(deck.slides.e)
    /\ pc = "D_done" => Len(pptx) = Len(deck.slides.e)
    /\ \A k \in 1..Len(pptx) :
          /\ pptx[k].index = k - 1
          /\ IF C29_Unavailable(k - 1)
             THEN pptx[k].picture = 0 /\ pptx[k].shapes # "none"
             ELSE /\ pptx[k].picture = results[k - 1].path
                  /\ pptx[k].shapes = "none"
                  /\ FileAt(files, pptx[k].picture) = "full"

\* build_pptx returned on a two-slide deck: the first slide's entry points
\* to an empty file and the slide got the inline warning diagram, the second
\* slide has no entry and got the decorative shapes.
C29_Witness ==
    /\ pc = "D_done"
    /\ Len(pptx) = 2
    /\ 0 \in DOMAIN results
    /\ FileAt(files, results[0].path) = "empty"
    /\ pptx[1].shapes = "warning"
    /\ 1 \notin DOMAIN results
    /\ FileAt(files, 2) = "full"
    /\ pptx[2].shapes = "decorative"
    /\ pptx[2].picture = 0

\* The stripped line is an H1 line ("# ...") / an H2 line ("## ...").
C30_IsH1(raw) == StartsWith(Strip(raw), <<"#", " ">>)

C30_IsH2(raw) == StartsWith(Strip(raw), <<"#", "#", " ">>)

\* The positions of the lines of the input that are H1 lines / H2 lines.
C30_H1s == {k \in 1..Len(md.lines) : C30_IsH1(md.lines[k])}

C30_H2s == {k \in 1..Len(md.lines) : C30_IsH2(md.lines[k])}

\* The title taken from the first H1 line of the input.
C30_FirstH1Title ==
    LET first == CHOOSE k \in C30_H1s : \A j \in C30_H1s : k <= j
    IN StripFrom(Strip(md.lines[first]), 2)

\* The slides are one per H2 line, in input order.
C30_SlidesFollowH2s ==
    /\ Len(md.slides) = Cardinality(C30_H2s)
    /\ \A n \in 1..Len(md.slides) :
          \E k \in C30_H2s :
             /\ Cardinality({j \in C30_H2s : j <= k}) = n
             /\ md.slides[n].title = StripFrom(Strip(md.lines[k]), 3)

\* C30: when parse_markdown returns, the title is the text of the first H1
\* line of the input, whatever H1 lines follow it, and "Untitled
\* Presentation" when the input has no H1 line; the slides are one per H2
\* line, in input order.
C30_TitleIsFirstH1 ==
    pc = "M_done" =>
        /\ md.presentation_title =
              IF C30_H1s = {} THEN UntitledPresentation ELSE C30_FirstH1Title
        /\ C30_SlidesFollowH2s

\* The case in which C30 does hold: an input with one H1 line between two
\* H2 lines gives that line's title and two slides in input order.
C30_Witness ==
    /\ pc = "M_done"
    /\ Cardinality(C30_H1s) = 1
    /\ Cardinality(C30_H2s) = 2
    /\ md.presentation_title = C30_FirstH1Title
    /\ Len(md.slides) = 2
    /\ md.slides[1].title # md.slides[2].title
    /\ C30_SlidesFollowH2s

====
